---------------------------- MODULE Spec2Model ----------------------------
(***************************************************************************)
(* BurnZip front end: client-side encrypted share links.                   *)
(*                                                                         *)
(* The model follows src/unnamed/part_001 (the App with the minimal        *)
(* recipient view) and src/unnamed/part_002 (the App that shows the        *)
(* recipient panel beside the landing page); the two share the crypto      *)
(* helpers, the package codec and both handlers line for line.             *)
(*                                                                         *)
(* Conventions                                                             *)
(*   - a JavaScript string is a sequence of UTF-16 code units (0..65535);  *)
(*   - a Uint8Array is a sequence of bytes (0..255);                       *)
(*   - a nullable state value is a sequence of length 0 (null) or 1;       *)
(*   - WebCrypto is outside the repository.  PBKDF2 is an injective        *)
(*     function of (password bytes, salt); AES-GCM is a stream cipher      *)
(*     with a polynomial tag over (key, iv, ciphertext), which is what     *)
(*     GCM is, over a small prime field instead of GF(2^128).              *)
(***************************************************************************)
EXTENDS Integers, Sequences, FiniteSets, TLC

(***************************************************************************)
(* Bounds of the model.                                                    *)
(***************************************************************************)
\* random draws (salts and nonces) available in one behaviour
MaxDraws == 4
\* inputs typed or picked in one behaviour: edits of an input field (code,
\* message, mode, file, incoming code) and addresses typed by hand
MaxEdits == 3

(***************************************************************************)
(* Generic helpers.                                                        *)
(***************************************************************************)
None == <<>>
Some(x) == <<x>>
IsSome(o) == Len(o) = 1
Val(o) == o[1]

\* a sequence given as a function on 1..n, as the tuple it is equal to
Array(f) == f \o <<>>

Min(a, b) == IF a < b THEN a ELSE b
Max(a, b) == IF a > b THEN a ELSE b

\* Array.prototype.slice(from, to) on an array of length Len(s), 0-based,
\* with both indices already clamped by the caller to be >= 0.
Slice(s, from, to) ==
    LET f == Min(from, Len(s))
        t == Min(to, Len(s))
    IN  IF t <= f THEN <<>> ELSE SubSeq(s, f + 1, t)

\* slice(from) to the end
SliceFrom(s, from) == Slice(s, from, Len(s))

(***************************************************************************)
(* TextEncoder / TextDecoder (UTF-8, WHATWG Encoding).                     *)
(***************************************************************************)
IsHighSurrogate(u) == u >= 55296 /\ u <= 56319
IsLowSurrogate(u)  == u >= 56320 /\ u <= 57343

\* UTF-8 bytes of one code point
Utf8Bytes(cp) ==
    IF cp < 128 THEN <<cp>>
    ELSE IF cp < 2048 THEN <<192 + (cp \div 64), 128 + (cp % 64)>>
    ELSE IF cp < 65536 THEN
        <<224 + (cp \div 4096), 128 + ((cp \div 64) % 64), 128 + (cp % 64)>>
    ELSE <<240 + (cp \div 262144), 128 + ((cp \div 4096) % 64),
           128 + ((cp \div 64) % 64), 128 + (cp % 64)>>

\* One step of the encoder's loop over the code units of s: st.skip says
\* that this unit is the low half of a pair already encoded.
Utf8EncodeStep(s, i, st) ==
    IF st.skip THEN [out |-> st.out, skip |-> FALSE]
    ELSE IF IsHighSurrogate(s[i]) /\ i < Len(s) /\ IsLowSurrogate(s[i + 1]) THEN
        [out |-> st.out \o
                 Utf8Bytes(65536 + (s[i] - 55296) * 1024 + (s[i + 1] - 56320)),
         skip |-> TRUE]
    ELSE IF IsHighSurrogate(s[i]) \/ IsLowSurrogate(s[i]) THEN
        \* a lone surrogate is encoded as U+FFFD
        [out |-> st.out \o <<239, 191, 189>>, skip |-> FALSE]
    ELSE [out |-> st.out \o Utf8Bytes(s[i]), skip |-> FALSE]

\* the loop over s[lo..hi], by halves; the left half is finished before the
\* right half starts
RECURSIVE Utf8EncodeRange(_, _, _, _)
Utf8EncodeRange(s, lo, hi, st) ==
    IF lo > hi THEN st
    ELSE IF lo = hi THEN Utf8EncodeStep(s, lo, st)
    ELSE LET mid == (lo + hi) \div 2
             left == Utf8EncodeRange(s, lo, mid, st)
         IN  IF Len(left.out) >= 0 THEN Utf8EncodeRange(s, mid + 1, hi, left)
             ELSE left

\* new TextEncoder().encode(s)
TextEncode(s) == Utf8EncodeRange(s, 1, Len(s), [out |-> <<>>, skip |-> FALSE]).out

\* UTF-16 code units of one decoded code point
Utf16Units(cp) ==
    IF cp < 65536 THEN <<cp>>
    ELSE <<55296 + ((cp - 65536) \div 1024), 56320 + ((cp - 65536) % 1024)>>

\* One byte x through the WHATWG UTF-8 decoder: st.cp is the code point being
\* assembled, st.need the continuation bytes still expected, st.lo..st.hi the
\* range allowed for the next byte.
Utf8DecodeFirst(out, x) ==
    IF x <= 127 THEN
        [out |-> out \o <<x>>, cp |-> 0, need |-> 0, lo |-> 128, hi |-> 191]
    ELSE IF x >= 194 /\ x <= 223 THEN
        [out |-> out, cp |-> x % 32, need |-> 1, lo |-> 128, hi |-> 191]
    ELSE IF x >= 224 /\ x <= 239 THEN
        [out |-> out, cp |-> x % 16, need |-> 2,
         lo |-> IF x = 224 THEN 160 ELSE 128, hi |-> IF x = 237 THEN 159 ELSE 191]
    ELSE IF x >= 240 /\ x <= 244 THEN
        [out |-> out, cp |-> x % 8, need |-> 3,
         lo |-> IF x = 240 THEN 144 ELSE 128, hi |-> IF x = 244 THEN 143 ELSE 191]
    ELSE [out |-> out \o <<65533>>, cp |-> 0, need |-> 0, lo |-> 128, hi |-> 191]

Utf8DecodeStep(st, x) ==
    IF st.need = 0 THEN Utf8DecodeFirst(st.out, x)
    ELSE IF x < st.lo \/ x > st.hi THEN
        \* U+FFFD, and the byte is decoded again as a first byte
        Utf8DecodeFirst(st.out \o <<65533>>, x)
    ELSE IF st.need = 1 THEN
        [out |-> st.out \o Utf16Units(st.cp * 64 + (x % 64)),
         cp |-> 0, need |-> 0, lo |-> 128, hi |-> 191]
    ELSE [out |-> st.out, cp |-> st.cp * 64 + (x % 64), need |-> st.need - 1,
          lo |-> 128, hi |-> 191]

\* the loop over b[lo..hi], by halves; the left half is finished before the
\* right half starts
RECURSIVE Utf8DecodeRange(_, _, _, _)
Utf8DecodeRange(b, lo, hi, st) ==
    IF lo > hi THEN st
    ELSE IF lo = hi THEN Utf8DecodeStep(st, b[lo])
    ELSE LET mid == (lo + hi) \div 2
             left == Utf8DecodeRange(b, lo, mid, st)
         IN  IF left.need >= 0 THEN Utf8DecodeRange(b, mid + 1, hi, left)
             ELSE left

\* the decoder at the end of the input: an unfinished sequence is U+FFFD
Utf8Decode(b) ==
    LET st == Utf8DecodeRange(b, 1, Len(b),
                  [out |-> <<>>, cp |-> 0, need |-> 0, lo |-> 128, hi |-> 191])
    IN  IF st.need # 0 THEN st.out \o <<65533>> ELSE st.out

HasBOM(b) == Len(b) >= 3 /\ b[1] = 239 /\ b[2] = 187 /\ b[3] = 191

\* new TextDecoder().decode(b): not fatal, ignoreBOM false, so a leading
\* byte order mark is consumed and never reaches the string.
TextDecode(b) ==
    Utf8Decode(IF HasBOM(b) THEN SliceFrom(b, 3) ELSE b)

\* String.prototype.toUpperCase maps every code point by the Unicode default
\* case conversion (UnicodeData.txt and the unconditional entries of
\* SpecialCasing.txt, here of Unicode 17.0), whatever the locale.
\* UpperRanges: <<first, last, step, offset>>, the code points first,
\* first + step, ..., last have their capital at the offset.
UpperRanges ==
    {
     <<97, 122, 1, -32>>, <<181, 181, 1, 743>>, <<224, 246, 1, -32>>,
     <<248, 254, 1, -32>>, <<255, 255, 1, 121>>, <<257, 303, 2, -1>>,
     <<305, 305, 1, -232>>, <<307, 311, 2, -1>>, <<314, 328, 2, -1>>,
     <<331, 375, 2, -1>>, <<378, 382, 2, -1>>, <<383, 383, 1, -300>>,
     <<384, 384, 1, 195>>, <<387, 389, 2, -1>>, <<392, 392, 1, -1>>,
     <<396, 396, 1, -1>>, <<402, 402, 1, -1>>, <<405, 405, 1, 97>>,
     <<409, 409, 1, -1>>, <<410, 410, 1, 163>>, <<411, 411, 1, 42561>>,
     <<414, 414, 1, 130>>, <<417, 421, 2, -1>>, <<424, 424, 1, -1>>,
     <<429, 429, 1, -1>>, <<432, 432, 1, -1>>, <<436, 438, 2, -1>>,
     <<441, 441, 1, -1>>, <<445, 445, 1, -1>>, <<447, 447, 1, 56>>,
     <<453, 453, 1, -1>>, <<454, 454, 1, -2>>, <<456, 456, 1, -1>>,
     <<457, 457, 1, -2>>, <<459, 459, 1, -1>>, <<460, 460, 1, -2>>,
     <<462, 476, 2, -1>>, <<477, 477, 1, -79>>, <<479, 495, 2, -1>>,
     <<498, 498, 1, -1>>, <<499, 499, 1, -2>>, <<501, 501, 1, -1>>,
     <<505, 543, 2, -1>>, <<547, 563, 2, -1>>, <<572, 572, 1, -1>>,
     <<575, 576, 1, 10815>>, <<578, 578, 1, -1>>, <<583, 591, 2, -1>>,
     <<592, 592, 1, 10783>>, <<593, 593, 1, 10780>>, <<594, 594, 1, 10782>>,
     <<595, 595, 1, -210>>, <<596, 596, 1, -206>>, <<598, 599, 1, -205>>,
     <<601, 601, 1, -202>>, <<603, 603, 1, -203>>, <<604, 604, 1, 42319>>,
     <<608, 608, 1, -205>>, <<609, 609, 1, 42315>>, <<611, 611, 1, -207>>,
     <<612, 612, 1, 42343>>, <<613, 613, 1, 42280>>, <<614, 614, 1, 42308>>,
     <<616, 616, 1, -209>>, <<617, 617, 1, -211>>, <<618, 618, 1, 42308>>,
     <<619, 619, 1, 10743>>, <<620, 620, 1, 42305>>, <<623, 623, 1, -211>>,
     <<625, 625, 1, 10749>>, <<626, 626, 1, -213>>, <<629, 629, 1, -214>>,
     <<637, 637, 1, 10727>>, <<640, 640, 1, -218>>, <<642, 642, 1, 42307>>,
     <<643, 643, 1, -218>>, <<647, 647, 1, 42282>>, <<648, 648, 1, -218>>,
     <<649, 649, 1, -69>>, <<650, 651, 1, -217>>, <<652, 652, 1, -71>>,
     <<658, 658, 1, -219>>, <<669, 669, 1, 42261>>, <<670, 670, 1, 42258>>,
     <<837, 837, 1, 84>>, <<881, 883, 2, -1>>, <<887, 887, 1, -1>>,
     <<891, 893, 1, 130>>, <<940, 940, 1, -38>>, <<941, 943, 1, -37>>,
     <<945, 961, 1, -32>>, <<962, 962, 1, -31>>, <<963, 971, 1, -32>>,
     <<972, 972, 1, -64>>, <<973, 974, 1, -63>>, <<976, 976, 1, -62>>,
     <<977, 977, 1, -57>>, <<981, 981, 1, -47>>, <<982, 982, 1, -54>>,
     <<983, 983, 1, -8>>, <<985, 1007, 2, -1>>, <<1008, 1008, 1, -86>>,
     <<1009, 1009, 1, -80>>, <<1010, 1010, 1, 7>>, <<1011, 1011, 1, -116>>,
     <<1013, 1013, 1, -96>>, <<1016, 1016, 1, -1>>, <<1019, 1019, 1, -1>>,
     <<1072, 1103, 1, -32>>, <<1104, 1119, 1, -80>>, <<1121, 1153, 2, -1>>,
     <<1163, 1215, 2, -1>>, <<1218, 1230, 2, -1>>, <<1231, 1231, 1, -15>>,
     <<1233, 1327, 2, -1>>, <<1377, 1414, 1, -48>>, <<4304, 4346, 1, 3008>>,
     <<4349, 4351, 1, 3008>>, <<5112, 5117, 1, -8>>,
     <<7296, 7296, 1, -6254>>, <<7297, 7297, 1, -6253>>,
     <<7298, 7298, 1, -6244>>, <<7299, 7300, 1, -6242>>,
     <<7301, 7301, 1, -6243>>, <<7302, 7302, 1, -6236>>,
     <<7303, 7303, 1, -6181>>, <<7304, 7304, 1, 35266>>,
     <<7306, 7306, 1, -1>>, <<7545, 7545, 1, 35332>>,
     <<7549, 7549, 1, 3814>>, <<7566, 7566, 1, 35384>>,
     <<7681, 7829, 2, -1>>, <<7835, 7835, 1, -59>>, <<7841, 7935, 2, -1>>,
     <<7936, 7943, 1, 8>>, <<7952, 7957, 1, 8>>, <<7968, 7975, 1, 8>>,
     <<7984, 7991, 1, 8>>, <<8000, 8005, 1, 8>>, <<8017, 8023, 2, 8>>,
     <<8032, 8039, 1, 8>>, <<8048, 8049, 1, 74>>, <<8050, 8053, 1, 86>>,
     <<8054, 8055, 1, 100>>, <<8056, 8057, 1, 128>>, <<8058, 8059, 1, 112>>,
     <<8060, 8061, 1, 126>>, <<8112, 8113, 1, 8>>, <<8126, 8126, 1, -7205>>,
     <<8144, 8145, 1, 8>>, <<8160, 8161, 1, 8>>, <<8165, 8165, 1, 7>>,
     <<8526, 8526, 1, -28>>, <<8560, 8575, 1, -16>>, <<8580, 8580, 1, -1>>,
     <<9424, 9449, 1, -26>>, <<11312, 11359, 1, -48>>,
     <<11361, 11361, 1, -1>>, <<11365, 11365, 1, -10795>>,
     <<11366, 11366, 1, -10792>>, <<11368, 11372, 2, -1>>,
     <<11379, 11379, 1, -1>>, <<11382, 11382, 1, -1>>,
     <<11393, 11491, 2, -1>>, <<11500, 11502, 2, -1>>,
     <<11507, 11507, 1, -1>>, <<11520, 11557, 1, -7264>>,
     <<11559, 11559, 1, -7264>>, <<11565, 11565, 1, -7264>>,
     <<42561, 42605, 2, -1>>, <<42625, 42651, 2, -1>>,
     <<42787, 42799, 2, -1>>, <<42803, 42863, 2, -1>>,
     <<42874, 42876, 2, -1>>, <<42879, 42887, 2, -1>>,
     <<42892, 42892, 1, -1>>, <<42897, 42899, 2, -1>>,
     <<42900, 42900, 1, 48>>, <<42903, 42921, 2, -1>>,
     <<42933, 42947, 2, -1>>, <<42952, 42954, 2, -1>>,
     <<42957, 42959, 2, -1>>, <<42961, 42961, 1, -1>>,
     <<42963, 42965, 2, -1>>, <<42967, 42969, 2, -1>>,
     <<42971, 42971, 1, -1>>, <<42998, 42998, 1, -1>>,
     <<43859, 43859, 1, -928>>, <<43888, 43967, 1, -38864>>,
     <<65345, 65370, 1, -32>>, <<66600, 66639, 1, -40>>,
     <<66776, 66811, 1, -40>>, <<66967, 67003, 2, -39>>,
     <<66968, 66977, 1, -39>>, <<66980, 66993, 1, -39>>,
     <<66996, 67001, 1, -39>>, <<67004, 67004, 1, -39>>,
     <<68800, 68850, 1, -64>>, <<68976, 68997, 1, -32>>,
     <<71872, 71903, 1, -32>>, <<93792, 93823, 1, -32>>,
     <<93883, 93907, 1, -27>>, <<125218, 125251, 1, -34>>
    }

\* UpperSpecial: <<code point, capital>> where the capital is more than one
\* code point long
UpperSpecial ==
    {
     <<223, <<83, 83>>>>, <<329, <<700, 78>>>>, <<496, <<74, 780>>>>,
     <<912, <<921, 776, 769>>>>, <<944, <<933, 776, 769>>>>,
     <<1415, <<1333, 1362>>>>, <<7830, <<72, 817>>>>, <<7831, <<84, 776>>>>,
     <<7832, <<87, 778>>>>, <<7833, <<89, 778>>>>, <<7834, <<65, 702>>>>,
     <<8016, <<933, 787>>>>, <<8018, <<933, 787, 768>>>>,
     <<8020, <<933, 787, 769>>>>, <<8022, <<933, 787, 834>>>>,
     <<8064, <<7944, 921>>>>, <<8065, <<7945, 921>>>>,
     <<8066, <<7946, 921>>>>, <<8067, <<7947, 921>>>>,
     <<8068, <<7948, 921>>>>, <<8069, <<7949, 921>>>>,
     <<8070, <<7950, 921>>>>, <<8071, <<7951, 921>>>>,
     <<8072, <<7944, 921>>>>, <<8073, <<7945, 921>>>>,
     <<8074, <<7946, 921>>>>, <<8075, <<7947, 921>>>>,
     <<8076, <<7948, 921>>>>, <<8077, <<7949, 921>>>>,
     <<8078, <<7950, 921>>>>, <<8079, <<7951, 921>>>>,
     <<8080, <<7976, 921>>>>, <<8081, <<7977, 921>>>>,
     <<8082, <<7978, 921>>>>, <<8083, <<7979, 921>>>>,
     <<8084, <<7980, 921>>>>, <<8085, <<7981, 921>>>>,
     <<8086, <<7982, 921>>>>, <<8087, <<7983, 921>>>>,
     <<8088, <<7976, 921>>>>, <<8089, <<7977, 921>>>>,
     <<8090, <<7978, 921>>>>, <<8091, <<7979, 921>>>>,
     <<8092, <<7980, 921>>>>, <<8093, <<7981, 921>>>>,
     <<8094, <<7982, 921>>>>, <<8095, <<7983, 921>>>>,
     <<8096, <<8040, 921>>>>, <<8097, <<8041, 921>>>>,
     <<8098, <<8042, 921>>>>, <<8099, <<8043, 921>>>>,
     <<8100, <<8044, 921>>>>, <<8101, <<8045, 921>>>>,
     <<8102, <<8046, 921>>>>, <<8103, <<8047, 921>>>>,
     <<8104, <<8040, 921>>>>, <<8105, <<8041, 921>>>>,
     <<8106, <<8042, 921>>>>, <<8107, <<8043, 921>>>>,
     <<8108, <<8044, 921>>>>, <<8109, <<8045, 921>>>>,
     <<8110, <<8046, 921>>>>, <<8111, <<8047, 921>>>>,
     <<8114, <<8122, 921>>>>, <<8115, <<913, 921>>>>, <<8116, <<902, 921>>>>,
     <<8118, <<913, 834>>>>, <<8119, <<913, 834, 921>>>>,
     <<8124, <<913, 921>>>>, <<8130, <<8138, 921>>>>, <<8131, <<919, 921>>>>,
     <<8132, <<905, 921>>>>, <<8134, <<919, 834>>>>,
     <<8135, <<919, 834, 921>>>>, <<8140, <<919, 921>>>>,
     <<8146, <<921, 776, 768>>>>, <<8147, <<921, 776, 769>>>>,
     <<8150, <<921, 834>>>>, <<8151, <<921, 776, 834>>>>,
     <<8162, <<933, 776, 768>>>>, <<8163, <<933, 776, 769>>>>,
     <<8164, <<929, 787>>>>, <<8166, <<933, 834>>>>,
     <<8167, <<933, 776, 834>>>>, <<8178, <<8186, 921>>>>,
     <<8179, <<937, 921>>>>, <<8180, <<911, 921>>>>, <<8182, <<937, 834>>>>,
     <<8183, <<937, 834, 921>>>>, <<8188, <<937, 921>>>>,
     <<64256, <<70, 70>>>>, <<64257, <<70, 73>>>>, <<64258, <<70, 76>>>>,
     <<64259, <<70, 70, 73>>>>, <<64260, <<70, 70, 76>>>>,
     <<64261, <<83, 84>>>>, <<64262, <<83, 84>>>>, <<64275, <<1348, 1350>>>>,
     <<64276, <<1348, 1333>>>>, <<64277, <<1348, 1339>>>>,
     <<64278, <<1358, 1350>>>>, <<64279, <<1348, 1341>>>>
    }

\* the capital of one code point, as UTF-16 code units (the capitals of
\* UpperSpecial are all below U+10000)
ToUpperCodePoint(cp) ==
    IF \E sp \in UpperSpecial : sp[1] = cp
    THEN (CHOOSE sp \in UpperSpecial : sp[1] = cp)[2]
    ELSE IF \E r \in UpperRanges :
                cp >= r[1] /\ cp <= r[2] /\ (cp - r[1]) % r[3] = 0
    THEN LET r == CHOOSE r \in UpperRanges :
                    cp >= r[1] /\ cp <= r[2] /\ (cp - r[1]) % r[3] = 0
         IN  Utf16Units(cp + r[4])
    ELSE Utf16Units(cp)

\* s.toUpperCase() from unit i on: a surrogate pair is one code point, a lone
\* surrogate stays as it is
RECURSIVE ToUpperCaseFrom(_, _)
ToUpperCaseFrom(s, i) ==
    IF i > Len(s) THEN <<>>
    ELSE IF /\ IsHighSurrogate(s[i])
            /\ i < Len(s)
            /\ IsLowSurrogate(s[i + 1])
    THEN ToUpperCodePoint(65536 + (s[i] - 55296) * 1024 + (s[i + 1] - 56320))
            \o ToUpperCaseFrom(s, i + 2)
    ELSE IF IsHighSurrogate(s[i]) \/ IsLowSurrogate(s[i])
    THEN <<s[i]>> \o ToUpperCaseFrom(s, i + 1)
    ELSE ToUpperCodePoint(s[i]) \o ToUpperCaseFrom(s, i + 1)

ToUpperCase(s) == ToUpperCaseFrom(s, 1)

\* String.prototype.trim: ECMAScript WhiteSpace and LineTerminator
IsWhite(u) ==
    u \in {9, 10, 11, 12, 13, 32, 160, 5760, 8232, 8233, 8239, 8287, 12288, 65279}
        \cup (8192..8202)
Trim(s) ==
    LET keep == {i \in 1..Len(s) : ~IsWhite(s[i])}
    IN  IF keep = {} THEN <<>>
        ELSE LET a == CHOOSE i \in keep : \A j \in keep : i <= j
                 z == CHOOSE i \in keep : \A j \in keep : i >= j
             IN  SubSeq(s, a, z)


(***************************************************************************)
(* base64: btoa / atob (forgiving-base64 decode of the HTML standard).     *)
(***************************************************************************)
\* code unit of the base64 digit with value v (A-Z a-z 0-9 + /)
B64Char(v) ==
    IF v < 26 THEN 65 + v
    ELSE IF v < 52 THEN 97 + (v - 26)
    ELSE IF v < 62 THEN 48 + (v - 52)
    ELSE IF v = 62 THEN 43 ELSE 47

\* value of a base64 digit, -1 when the code unit is not in the alphabet
B64Val(c) ==
    IF c >= 65 /\ c <= 90 THEN c - 65
    ELSE IF c >= 97 /\ c <= 122 THEN c - 97 + 26
    ELSE IF c >= 48 /\ c <= 57 THEN c - 48 + 52
    ELSE IF c = 43 THEN 62
    ELSE IF c = 47 THEN 63 ELSE -1

\* btoa(bin): standard base64 with '=' padding of a binary string
Btoa(bin) ==
    LET n == Len(bin)
        groups == (n + 2) \div 3
        at(k) == IF k <= n THEN bin[k] ELSE 0
        digit(k) ==
            LET g == (k - 1) \div 4
                pos == (k - 1) % 4
                b0 == at(3 * g + 1)
                b1 == at(3 * g + 2)
                b2 == at(3 * g + 3)
            IN  IF pos = 0 THEN B64Char(b0 \div 4)
                ELSE IF pos = 1 THEN B64Char((b0 % 4) * 16 + (b1 \div 16))
                ELSE IF pos = 2 THEN
                    (IF 3 * g + 2 > n THEN 61
                     ELSE B64Char((b1 % 16) * 4 + (b2 \div 64)))
                ELSE (IF 3 * g + 3 > n THEN 61 ELSE B64Char(b2 % 64))
    IN  Array([k \in 1..(4 * groups) |-> digit(k)])

\* atob(s): [ok |-> FALSE] when atob throws InvalidCharacterError
Atob(s) ==
    LET stripped == SelectSeq(s, LAMBDA c : c \notin {9, 10, 12, 13, 32})
        m0 == Len(stripped)
        pads == IF m0 % 4 = 0 /\ m0 >= 2 /\ stripped[m0] = 61
                THEN (IF stripped[m0 - 1] = 61 THEN 2 ELSE 1)
                ELSE 0
        d == SubSeq(stripped, 1, m0 - pads)
        m == Len(d)
        v(k) == B64Val(d[k])
        byte(j) ==
            LET q == ((8 * (j - 1)) \div 6) + 1
                r == (8 * (j - 1)) % 6
            IN  IF r = 0 THEN v(q) * 4 + (v(q + 1) \div 16)
                ELSE IF r = 2 THEN (v(q) % 16) * 16 + (v(q + 1) \div 4)
                ELSE (v(q) % 4) * 64 + v(q + 1)
    IN  IF m % 4 = 1 \/ (\E k \in 1..m : B64Val(d[k]) = -1)
        THEN [ok |-> FALSE, bin |-> <<>>]
        ELSE [ok |-> TRUE, bin |-> Array([j \in 1..((m * 6) \div 8) |-> byte(j)])]

CHUNK_SIZE == 32768

\* the while loop of u8ToBase64: String.fromCharCode.apply on one chunk after
\* the other, each appended to result
RECURSIVE BinaryString(_, _)
BinaryString(u8, index) ==
    IF index < Len(u8)
    THEN Slice(u8, index, Min(index + CHUNK_SIZE, Len(u8)))
            \o BinaryString(u8, index + CHUNK_SIZE)
    ELSE <<>>

u8ToBase64(u8) == Btoa(BinaryString(u8, 0))

\* base64ToU8: charCodeAt of every unit of atob's result; atob's exception
\* propagates to the caller
base64ToU8(b64) ==
    LET r == Atob(b64)
    IN  [ok |-> r.ok, u8 |-> Array([i \in 1..Len(r.bin) |-> r.bin[i]])]

(***************************************************************************)
(* Package codec.                                                          *)
(***************************************************************************)
\* Uint8Array.prototype.set(src, offset) into a zero-filled array of length
\* Len(out); a source that does not fit throws RangeError, which no call of
\* packageEncrypted can meet since out is sized from its parts.
SetAt(out, src, offset) ==
    LET n == Len(src)
    IN  Array([i \in 1..Len(out) |->
                IF i > offset /\ i <= offset + n THEN src[i - offset] ELSE out[i]])

packageEncrypted(salt, filename, encryptedU8) ==
    LET filenameBytes == TextEncode(filename)
        headerLen == 16 + 1 + Len(filenameBytes)
        out0 == Array([i \in 1..(headerLen + Len(encryptedU8)) |-> 0])
        out1 == SetAt(out0, salt, 0)
        out2 == [out1 EXCEPT ![17] = Len(filenameBytes) % 256]
        out3 == SetAt(out2, filenameBytes, 17)
    IN  SetAt(out3, encryptedU8, headerLen)

\* u8[16] of a buffer of 16 bytes or fewer is undefined, 17 + undefined is
\* NaN, slice(17, NaN) is empty and slice(NaN) is the whole buffer.
unpackageEncrypted(u8) ==
    LET salt == Slice(u8, 0, 16)
        hasLen == Len(u8) >= 17
        filenameLen == IF hasLen THEN u8[17] ELSE 0
        filenameBytes == IF hasLen THEN Slice(u8, 17, 17 + filenameLen) ELSE <<>>
        filename == TextDecode(filenameBytes)
        encrypted == IF hasLen THEN SliceFrom(u8, 17 + filenameLen) ELSE u8
    IN  [salt |-> salt, filename |-> filename, encrypted |-> encrypted]

(***************************************************************************)
(* WebCrypto as the App uses it.                                           *)
(***************************************************************************)
MAX_EMBED_BYTES == 96 * 1024

\* length of the AES-GCM authentication tag (the default tagLength, 128 bits)
TagBytes == 16
\* length of the nonce encryptArrayBuffer draws
IvBytes == 12
\* length of the salt the Prepare handlers draw
SaltBytes == 16

\* AES-GCM is modelled over Lanes prime fields, each below 2^15 so that a
\* product of two residues stays a 32-bit integer; every lane gives two
\* bytes of the tag
Lanes == 8
LanePrimes == <<32717, 32693, 32687, 32633, 32621, 32609, 32603, 32579>>

\* crypto.getRandomValues(new Uint8Array(n)): the k-th draw of a source that
\* never repeats a value
RandomBytes(n, k) ==
    Array([i \in 1..n |-> IF i = 1 THEN k + 1 ELSE (7 * k + i) % 256])

\* a derivation that leaves the code out of the key
deriveKeyFromSalt(code, salt) == [password |-> <<>>, salt |-> salt]

\* deriveKeyFromCode: PBKDF2-SHA256 of the UTF-8 bytes of the code under the
\* salt, as a key for AES-GCM.  The key is never serialised, so it is kept as
\* the pair it is a function of.
deriveKeyFromCode(code, salt) == [password |-> TextEncode(code), salt |-> salt]

\* one value for every lane
OfLanes(f) == <<f[1], f[2], f[3], f[4], f[5], f[6], f[7], f[8]>>

\* the key schedule takes in one value: every lane is mixed with the next
\* lane and cubed.  x^3 is a permutation of the field of p, every prime of
\* LanePrimes being 2 mod 3.
Absorb(st, b) ==
    OfLanes([j \in 1..Lanes |->
            LET p == LanePrimes[j]
                x == (st[j] + 3 * st[(j % Lanes) + 1] + b + j) % p
            IN  (((x * x) % p) * x) % p])

\* two states of the key schedule made one; the order matters
Mix(a, b) ==
    OfLanes([j \in 1..Lanes |->
            LET p == LanePrimes[j]
                x == (a[j] + 5 * b[j] + 3 * b[(j % Lanes) + 1] + j) % p
            IN  (((x * x) % p) * x) % p])

\* three values of s, from the (3k-2)-th on, as one number above 0; values
\* past the end count 0.  Two such numbers of bytes that differ do so by
\* less than 2^24, which is less than a product of two primes of LanePrimes:
\* they differ in all lanes but one.
Coefficient(s, k) ==
    s[3 * k - 2] * 65536
        + (IF 3 * k - 1 <= Len(s) THEN s[3 * k - 1] * 256 ELSE 0)
        + (IF 3 * k <= Len(s) THEN s[3 * k] ELSE 0)
        + 1

\* the coefficients lo..hi of s taken into the key schedule, by halves so
\* that the evaluation does not nest deeply
RECURSIVE AbsorbRange(_, _, _)
AbsorbRange(s, lo, hi) ==
    IF lo = hi THEN Absorb(OfLanes([j \in 1..Lanes |-> j]), Coefficient(s, lo))
    ELSE LET mid == (lo + hi) \div 2
         IN  Mix(AbsorbRange(s, lo, mid), AbsorbRange(s, mid + 1, hi))

\* what the key and the nonce contribute: every part with its length
KeyIvHash(key, iv) ==
    LET parts == <<Len(key.password)>> \o key.password \o <<Len(key.salt)>>
                    \o key.salt \o <<Len(iv)>> \o iv
    IN  AbsorbRange(parts, 1, (Len(parts) + 2) \div 3)

\* the d-th block of secret values drawn from the key schedule
Squeeze(h, d) == Absorb(Absorb(h, 256 + d), 512 + d)

\* the keystream byte at position i (from 1) under the blocks base and step
KeyStreamByte(base, step, i) ==
    LET j == ((i - 1) % Lanes) + 1
        k == ((i - 1) \div Lanes) % 256
    IN  (base[j] + k * ((2 * step[j] + 1) % 256)) % 256

\* the polynomial of the coefficients lo..hi of s at the points r, with r to
\* the power of their number beside it, lane by lane: <<polynomial, power>>.
\* By halves, so that a long buffer does not nest deeply.
RECURSIVE PolyRange(_, _, _, _)
PolyRange(s, lo, hi, r) ==
    IF lo > hi THEN OfLanes([j \in 1..Lanes |-> <<0, 1>>])
    ELSE IF hi - lo < 4
    THEN LET k1 == Coefficient(s, lo)
             k2 == Coefficient(s, lo + 1)
             k3 == Coefficient(s, lo + 2)
             k4 == Coefficient(s, lo + 3)
         IN  OfLanes([j \in 1..Lanes |->
                LET p == LanePrimes[j]
                    r2 == (r[j] * r[j]) % p
                    r3 == (r2 * r[j]) % p
                    c1 == k1 % p
                    c2 == (c1 * r[j] + (k2 % p)) % p
                    c3 == (c2 * r[j] + (k3 % p)) % p
                    c4 == (c3 * r[j] + (k4 % p)) % p
                IN  IF lo = hi THEN <<c1, r[j]>>
                    ELSE IF lo + 1 = hi THEN <<c2, r2>>
                    ELSE IF lo + 2 = hi THEN <<c3, r3>>
                    ELSE <<c4, (r3 * r[j]) % p>>])
    ELSE LET mid == (lo + hi) \div 2
             left == PolyRange(s, lo, mid, r)
             right == PolyRange(s, mid + 1, hi, r)
         IN  OfLanes([j \in 1..Lanes |->
                    <<(left[j][1] * right[j][2] + right[j][1]) % LanePrimes[j],
                      (left[j][2] * right[j][2]) % LanePrimes[j]>>])

\* the tag of a ciphertext under the key schedule h: in every lane the
\* polynomial of the ciphertext and its length at a secret point (none 0 or
\* 1), under a secret mask; two bytes a lane
GcmTag(h, cipher) ==
    LET points == Squeeze(h, 1)
        r == OfLanes([j \in 1..Lanes |-> 2 + (points[j] % (LanePrimes[j] - 2))])
        mask == Squeeze(h, 2)
        poly == PolyRange(cipher, 1, (Len(cipher) + 2) \div 3, r)
        t == OfLanes([j \in 1..Lanes |->
                LET p == LanePrimes[j]
                    withLen == (((r[j] * poly[j][1]) % p) + Len(cipher)) % p
                IN  (mask[j] + (r[j] * withLen)) % p])
    IN  Array([i \in 1..TagBytes |->
                IF i % 2 = 1 THEN t[(i + 1) \div 2] % 256
                ELSE t[i \div 2] \div 256])

\* crypto.subtle.encrypt({name: "AES-GCM", iv}, key, plaintext):
\* ciphertext followed by the tag
SubtleEncrypt(key, iv, plain) ==
    LET h == KeyIvHash(key, iv)
        base == Squeeze(h, 3)
        step == Squeeze(h, 4)
        cipher == Array([i \in 1..Len(plain) |->
                    (plain[i] + KeyStreamByte(base, step, i)) % 256])
    IN  cipher \o GcmTag(h, cipher)

\* a decryption that does not verify the tag
SubtleDecryptUnverified(key, iv, data) ==
    IF Len(data) < TagBytes \/ Len(iv) = 0 THEN [ok |-> FALSE, plain |-> <<>>]
    ELSE LET cipher == Slice(data, 0, Len(data) - TagBytes)
             h == KeyIvHash(key, iv)
             base == Squeeze(h, 3)
             step == Squeeze(h, 4)
         IN  [ok |-> TRUE,
              plain |-> Array([i \in 1..Len(cipher) |->
                            (cipher[i] - KeyStreamByte(base, step, i)) % 256])]

\* crypto.subtle.decrypt({name: "AES-GCM", iv}, key, data): OperationError
\* (ok FALSE) when the data is shorter than a tag, the nonce is empty or the
\* tag does not verify
SubtleDecrypt(key, iv, data) ==
    IF Len(data) < TagBytes \/ Len(iv) = 0 THEN [ok |-> FALSE, plain |-> <<>>]
    ELSE LET cipher == Slice(data, 0, Len(data) - TagBytes)
             tag == SliceFrom(data, Len(data) - TagBytes)
             h == KeyIvHash(key, iv)
             base == Squeeze(h, 3)
             step == Squeeze(h, 4)
         IN  IF tag # GcmTag(h, cipher) THEN [ok |-> FALSE, plain |-> <<>>]
             ELSE [ok |-> TRUE,
                   plain |-> Array([i \in 1..Len(cipher) |->
                                (cipher[i] - KeyStreamByte(base, step, i)) % 256])]

\* an encryption that hands back the ciphertext without the nonce before it
encryptArrayBufferBare(key, iv, plaintextBuffer) ==
    SubtleEncrypt(key, iv, plaintextBuffer)

\* encryptArrayBuffer with the nonce it drew: nonce, then ciphertext and tag
encryptArrayBuffer(key, iv, plaintextBuffer) ==
    LET cipherBuf == SubtleEncrypt(key, iv, plaintextBuffer)
        out == Array([i \in 1..(Len(iv) + Len(cipherBuf)) |-> 0])
    IN  SetAt(SetAt(out, iv, 0), cipherBuf, Len(iv))

decryptArrayBuffer(key, combinedCipher) ==
    LET iv == Slice(combinedCipher, 0, 12)
        cipher == SliceFrom(combinedCipher, 12)
    IN  SubtleDecrypt(key, iv, cipher)

(***************************************************************************)
(* Texts.                                                                  *)
(***************************************************************************)
\* "message.txt"
MessageTxt == <<109, 101, 115, 115, 97, 103, 101, 46, 116, 120, 116>>
\* "#share:"
ShareMarker == <<35, 115, 104, 97, 114, 101, 58>>

AlertCode == "Enter a 10-character code"
AlertFile == "Select a file first"
AlertMessage == "Enter a message first"
AlertEncrypt == "Encryption failed; check console for details"
AlertIncomingCode == "Enter the 10-character code to decrypt"
AlertDecrypt == "Decryption failed. Check the code and try again."
NoAlert == "none"

WarnTooLarge ==
    "Payload exceeds safe embed size. Upload the encrypted blob to your server and share a short ID instead."
WarnMalformed == "Malformed share link"

LocationOrigin == "https://burnzip.example"
LocationPathname == "/"

(***************************************************************************)
(* Inputs of the model.                                                    *)
(***************************************************************************)
\* "ABCD123456", as typed in lower case, and "ZZZZ999999"
CodeA == <<65, 66, 67, 68, 49, 50, 51, 52, 53, 54>>
CodeATyped == <<97, 98, 99, 100, 49, 50, 51, 52, 53, 54>>
CodeB == <<90, 90, 90, 90, 57, 57, 57, 57, 57, 57>>
\* a dotless i (U+0131) as typed: toUpperCase makes it "I", too short
CodeShortTyped == <<305>>

\* what the user types into the sender's code field
TypedCodes == {CodeATyped, CodeShortTyped}
\* Math.random().toString(36) of two numbers: "0.zzzz999999a", and "0.i",
\* which is 0.5
RandomTexts ==
    {<<48, 46, 122, 122, 122, 122, 57, 57, 57, 57, 57, 57, 97>>, <<48, 46, 105>>}
\* ten characters, or fewer when the number is short in base 36
randomExampleCode(text) == ToUpperCase(Slice(text, 2, 12))
RandomCodes == {randomExampleCode(text) : text \in RandomTexts}
\* what the recipient types into the code field; the last is a sharp s
\* (U+00DF), which toUpperCase makes "SS"
TypedIncomingCodes == {CodeATyped, CodeB, <<223>>}

\* "hello" and a blank message
Hello == <<104, 101, 108, 108, 111>>
TypedMessages == {Hello, <<32, 32>>}

\* A File is a handle: its name, and its bytes, which the App gets from
\* arrayBuffer().  The bytes are kept as the first of them and the number of
\* those that follow, the i-th of which is i % 251.
FileBytes(f) == f.head \o Array([i \in 1..f.rest |-> i % 251])

\* the files the user can pick: a binary file, a text file whose name starts
\* with U+FEFF, an empty file whose name is 256 bytes long
LongNameLen == 256
FileBinary == [name |-> <<97, 46, 98, 105, 110>>, head |-> <<0, 255>>, rest |-> 0]
FileBomName == [name |-> <<65279, 97>>, head |-> <<104, 105>>, rest |-> 0]
FileLongName ==
    [name |-> Array([i \in 1..LongNameLen |-> 97]), head |-> <<>>, rest |-> 0]
Files == {FileBinary, FileBomName, FileLongName}

\* "#SHARE:QUJD": the marker in upper case before base64 text
UpperMarkerFragment == <<35, 83, 72, 65, 82, 69, 58, 81, 85, 74, 68>>

\* fragments a page can be opened with, besides a link a sender produced:
\* none, "#x", "#share:", "#share:!", "#share:QUJD" (three bytes) and
\* "#SHARE:QUJD"
OtherFragments ==
    {<<>>, <<35, 120>>, ShareMarker, ShareMarker \o <<33>>,
     ShareMarker \o <<81, 85, 74, 68>>, UpperMarkerFragment}

(***************************************************************************)
(* State.                                                                  *)
(***************************************************************************)
VARIABLES
    variant,            \* "part_001" or "part_002": which App is running
    uploaderOpen, mode, code, message, preview, shareUrl, busy, pasteWarning,
    fileSel,            \* fileInputRef.current.files[0], None without one
    incomingShare, incomingCode, decryptedPreview, downloadReady,
    locationHash,       \* window.location.hash
    prep,               \* the call of handlePrepareAndGenerateLink in flight
    dec,                \* the call of handleDownloadFromShare in flight
    alert,              \* the alert() the last step showed
    rng,                \* draws taken from crypto.getRandomValues
    sentLink,           \* the link on display (shareUrl), with what it holds
    origin,             \* the link the loaded share came from, if a sender's,
                        \* and whether a Decrypt of it has failed
    edits,              \* inputs typed or picked so far
    codec,              \* the package codec applied on its own: input and result
    file, downloadUrl, status,      \* the state of UploadPage
    uploads,            \* the calls of UploadPage's handleUpload, by number
    started             \* how many calls of handleUpload have set 'Uploading...'

appVars == <<uploaderOpen, mode, code, message, preview, shareUrl, busy,
             pasteWarning, fileSel, incomingShare, incomingCode,
             decryptedPreview, downloadReady, locationHash>>
vars == <<variant, uploaderOpen, mode, code, message, preview, shareUrl, busy,
          pasteWarning, fileSel, incomingShare, incomingCode, decryptedPreview,
          downloadReady, locationHash, prep, dec, alert, rng, sentLink, origin,
          edits, codec, file, downloadUrl, status, uploads, started>>

\* what no step of the App changes
fixedVars == <<variant, codec, file, downloadUrl, status, uploads, started>>

senderVars == <<uploaderOpen, mode, code, message, preview, shareUrl,
                pasteWarning, fileSel>>
recipientVars == <<incomingShare, incomingCode, decryptedPreview, downloadReady,
                   locationHash>>

NoFile == [name |-> <<>>, head |-> <<>>, rest |-> 0]

\* no call in flight
IdlePrep ==
    [pc |-> "idle", fail |-> FALSE, code |-> <<>>, mode |-> "file",
     message |-> <<>>, salt |-> <<>>, file |-> NoFile, filename |-> <<>>,
     iv |-> <<>>]
IdleDec ==
    [pc |-> "idle", fail |-> FALSE, code |-> <<>>, payload |-> <<>>]

\* the codec is not run on its own
NoCodec ==
    [phase |-> "off", salt |-> <<>>, filename |-> <<>>, blob |-> <<>>,
     packed |-> <<>>, out |-> [salt |-> <<>>, filename |-> <<>>, encrypted |-> <<>>]]

\* the App as mounted on a page without a fragment
InitApp ==
    /\ variant \in {"part_001", "part_002"}
    /\ uploaderOpen = FALSE
    /\ mode = "file"
    /\ code = <<>>
    /\ message = <<>>
    /\ preview = None
    /\ shareUrl = None
    /\ busy = FALSE
    /\ pasteWarning = None
    /\ fileSel = None
    /\ incomingShare = None
    /\ incomingCode = <<>>
    /\ decryptedPreview = None
    /\ downloadReady = None
    /\ locationHash = <<>>
    /\ prep = IdlePrep
    /\ dec = IdleDec
    /\ alert = NoAlert
    /\ rng = 0
    /\ sentLink = None
    /\ origin = None
    /\ edits = 0

\* calls of UploadPage's handleUpload that are told apart
MaxUploads == 3

\* a call of handleUpload that has not been made
NoUpload == [pc |-> "none", id |-> None]

\* UploadPage as mounted: useState(null), useState(null), useState('')
InitUploadPage ==
    /\ file = None
    /\ downloadUrl = None
    /\ status = ""
    /\ uploads = [k \in 1..MaxUploads |-> NoUpload]
    /\ started = 0

Init ==
    /\ InitApp
    /\ codec = NoCodec
    /\ InitUploadPage

(***************************************************************************)
(* What is rendered.                                                       *)
(***************************************************************************)
\* part_001 renders only the recipient view while a share is loaded
RecipientOnly == variant = "part_001" /\ IsSome(incomingShare)
LandingShown == ~RecipientOnly
UploaderShown == LandingShown /\ uploaderOpen
RecipientShown == IsSome(incomingShare)
\* part_001 shows Close inside the downloadReady block, part_002 shows Clear
\* in the head of the panel
ClearShown ==
    /\ RecipientShown
    /\ (variant = "part_001" => IsSome(downloadReady))

\* {pasteWarning && <div>...}: the warning is rendered inside the uploader,
\* and in the recipient view of part_001
WarningShown ==
    /\ IsSome(pasteWarning)
    /\ (UploaderShown \/ RecipientOnly)

(***************************************************************************)
(* The sender's input fields and buttons.                                  *)
(***************************************************************************)
\* Get Started
openUploader ==
    /\ LandingShown
    /\ \E c \in RandomCodes : code' = c
    /\ message' = <<>>
    /\ preview' = None
    /\ shareUrl' = None
    /\ uploaderOpen' = TRUE
    /\ pasteWarning' = None
    /\ sentLink' = None
    /\ alert' = NoAlert
    /\ UNCHANGED <<fixedVars, mode, busy, fileSel, recipientVars, prep, dec, rng,
                   origin, edits>>

\* Close: the file input goes with the uploader
CloseUploader ==
    /\ UploaderShown
    /\ uploaderOpen' = FALSE
    /\ preview' = None
    /\ shareUrl' = None
    /\ fileSel' = None
    /\ sentLink' = None
    /\ alert' = NoAlert
    /\ UNCHANGED <<fixedVars, mode, code, message, busy, pasteWarning,
                   recipientVars, prep, dec, rng, origin, edits>>

\* File / Message: the file input is rendered in file mode only
SetMode ==
    /\ UploaderShown
    /\ edits < MaxEdits
    /\ \E m \in {"file", "message"} :
        /\ m # mode
        /\ mode' = m
    /\ fileSel' = None
    /\ edits' = edits + 1
    /\ alert' = NoAlert
    /\ UNCHANGED <<fixedVars, uploaderOpen, code, message, preview, shareUrl, busy,
                   pasteWarning, recipientVars, prep, dec, rng, sentLink, origin>>

\* the code field: setCode(e.target.value.toUpperCase())
TypeCode ==
    /\ UploaderShown
    /\ edits < MaxEdits
    /\ \E c \in TypedCodes : code' = ToUpperCase(c)
    /\ edits' = edits + 1
    /\ alert' = NoAlert
    /\ UNCHANGED <<fixedVars, uploaderOpen, mode, message, preview, shareUrl, busy,
                   pasteWarning, fileSel, recipientVars, prep, dec, rng,
                   sentLink, origin>>

\* New: setCode(randomExampleCode())
NewCode ==
    /\ UploaderShown
    /\ edits < MaxEdits
    /\ \E c \in RandomCodes : code' = c
    /\ edits' = edits + 1
    /\ alert' = NoAlert
    /\ UNCHANGED <<fixedVars, uploaderOpen, mode, message, preview, shareUrl, busy,
                   pasteWarning, fileSel, recipientVars, prep, dec, rng,
                   sentLink, origin>>

TypeMessage ==
    /\ UploaderShown
    /\ mode = "message"
    /\ edits < MaxEdits
    /\ \E m \in TypedMessages : message' = m
    /\ edits' = edits + 1
    /\ alert' = NoAlert
    /\ UNCHANGED <<fixedVars, uploaderOpen, mode, code, preview, shareUrl, busy,
                   pasteWarning, fileSel, recipientVars, prep, dec, rng,
                   sentLink, origin>>

SelectFile ==
    /\ UploaderShown
    /\ mode = "file"
    /\ edits < MaxEdits
    /\ \E f \in Files : fileSel' = Some(f)
    /\ edits' = edits + 1
    /\ alert' = NoAlert
    /\ UNCHANGED <<fixedVars, uploaderOpen, mode, code, message, preview, shareUrl,
                   busy, pasteWarning, recipientVars, prep, dec, rng, sentLink,
                   origin>>

(***************************************************************************)
(* handlePrepareAndGenerateLink, one action for each stretch between two   *)
(* awaits.  The handler reads code, mode and message from the render it    *)
(* was created in; fileInputRef.current is read when the line runs.        *)
(***************************************************************************)
\* `${filename} -> encrypted (${Math.round(packaged.length / 1024)} KB)`
PreviewText(filename, packaged) ==
    [filename |-> filename, kb |-> (Len(packaged) + 512) \div 1024]

\* plaintextU8 of the call in flight: the bytes of the file, or the encoded
\* message
PreparePlain(p) ==
    IF p.mode = "file" THEN FileBytes(p.file) ELSE TextEncode(p.message)

\* the package of the call in flight
PreparePackaged(p) ==
    packageEncrypted(p.salt, p.filename,
        encryptArrayBuffer(deriveKeyFromCode(p.code, p.salt), p.iv,
                           PreparePlain(p)))

\* The link of a package is kept as the call that made the package, a short
\* value; ShareLinkUrl(PreparePackaged(_)) of it is the link itself.
LinkSource(p) ==
    [code |-> p.code, salt |-> p.salt, iv |-> p.iv, filename |-> p.filename,
     mode |-> p.mode, message |-> p.message, file |-> p.file]

\* a link with a slash between the marker and the base64 text
ShareLinkUrlSlash(packaged) ==
    [origin |-> LocationOrigin, pathname |-> LocationPathname,
     hash |-> ShareMarker \o <<47>> \o u8ToBase64(packaged)]

\* `${origin}${pathname}#share:${b64}`
ShareLinkUrl(packaged) ==
    [origin |-> LocationOrigin, pathname |-> LocationPathname,
     hash |-> ShareMarker \o u8ToBase64(packaged)]

\* the url of a link kept as its source
UrlOf(source) == ShareLinkUrl(PreparePackaged(source))

\* an embed decision that lets every package through
TooLargeNever(packaged) == FALSE

\* an embed decision that turns the threshold itself away
TooLargeFromThreshold(packaged) == Len(packaged) >= MAX_EMBED_BYTES

\* the embed decision
TooLarge(packaged) == Len(packaged) > MAX_EMBED_BYTES

\* a catch that swallows the failure
PrepareCatchSilent ==
    /\ alert' = NoAlert
    /\ busy' = FALSE
    /\ prep' = IdlePrep
    /\ UNCHANGED <<fixedVars, senderVars, recipientVars, dec, rng, sentLink,
                   origin, edits>>

\* catch and finally of the handler
PrepareCatch ==
    /\ alert' = AlertEncrypt
    /\ busy' = FALSE
    /\ prep' = IdlePrep
    /\ UNCHANGED <<fixedVars, senderVars, recipientVars, dec, rng, sentLink,
                   origin, edits>>

\* a return without payload that leaves the App busy
PrepareNoPayloadBusy(text) ==
    /\ alert' = text
    /\ prep' = IdlePrep
    /\ UNCHANGED <<fixedVars, senderVars, busy, recipientVars, dec, rng,
                   sentLink, origin, edits>>

\* no payload: alert(text); setBusy(false); return
PrepareNoPayload(text) ==
    /\ alert' = text
    /\ busy' = FALSE
    /\ prep' = IdlePrep
    /\ UNCHANGED <<fixedVars, senderVars, recipientVars, dec, rng, sentLink,
                   origin, edits>>

\* a Prepare button that is not disabled while the App is busy
PrepareClickWhileBusy ==
    /\ UploaderShown
    /\ IF Len(code) # 10
       THEN /\ alert' = AlertCode
            /\ UNCHANGED <<fixedVars, senderVars, busy, recipientVars, prep, dec,
                           rng, sentLink, origin, edits>>
       ELSE /\ rng + 2 <= MaxDraws
            /\ busy' = TRUE
            /\ \E fail \in BOOLEAN :
                prep' = [IdlePrep EXCEPT !.pc = "derive", !.fail = fail,
                            !.code = code, !.mode = mode, !.message = message,
                            !.salt = RandomBytes(SaltBytes, rng)]
            /\ rng' = rng + 1
            /\ alert' = NoAlert
            /\ UNCHANGED <<fixedVars, senderVars, recipientVars, dec, sentLink,
                           origin, edits>>

\* the click on Prepare (the button is disabled while busy), up to the await
\* of deriveKeyFromCode
PrepareClick ==
    /\ UploaderShown
    /\ ~busy
    /\ IF Len(code) # 10
       THEN /\ alert' = AlertCode
            /\ UNCHANGED <<fixedVars, senderVars, busy, recipientVars, prep, dec,
                           rng, sentLink, origin, edits>>
       ELSE /\ rng + 2 <= MaxDraws
            /\ busy' = TRUE
            /\ \E fail \in BOOLEAN :
                prep' = [IdlePrep EXCEPT !.pc = "derive", !.fail = fail,
                            !.code = code, !.mode = mode, !.message = message,
                            !.salt = RandomBytes(SaltBytes, rng)]
            /\ rng' = rng + 1
            /\ alert' = NoAlert
            /\ UNCHANGED <<fixedVars, senderVars, recipientVars, dec, sentLink,
                           origin, edits>>

\* deriveKeyFromCode has settled: the payload is looked at, and encryption
\* (message mode) or the read of the file (file mode) is started
PrepareDerived ==
    /\ prep.pc = "derive"
    /\ IF prep.fail THEN PrepareCatch
       ELSE IF prep.mode = "file" THEN
            IF ~IsSome(fileSel)
            THEN PrepareNoPayload(AlertFile)
            ELSE /\ \E fail \in BOOLEAN :
                    prep' = [prep EXCEPT !.pc = "read", !.fail = fail,
                                !.file = Val(fileSel),
                                !.filename = Val(fileSel).name]
                 /\ alert' = NoAlert
                 /\ UNCHANGED <<fixedVars, senderVars, busy, recipientVars, dec,
                                rng, sentLink, origin, edits>>
       ELSE IF Len(prep.message) = 0 \/ Len(Trim(prep.message)) = 0
            THEN PrepareNoPayload(AlertMessage)
            ELSE /\ \E fail \in BOOLEAN :
                    prep' = [prep EXCEPT !.pc = "encrypt", !.fail = fail,
                                !.filename = MessageTxt,
                                !.iv = RandomBytes(IvBytes, rng)]
                 /\ rng' = rng + 1
                 /\ alert' = NoAlert
                 /\ UNCHANGED <<fixedVars, senderVars, busy, recipientVars, dec,
                                sentLink, origin, edits>>

\* a read after which the encryption runs with one and the same nonce
PrepareReadFixedNonce ==
    /\ prep.pc = "read"
    /\ IF prep.fail THEN PrepareCatch
       ELSE /\ \E fail \in BOOLEAN :
                prep' = [prep EXCEPT !.pc = "encrypt", !.fail = fail,
                            !.iv = RandomBytes(IvBytes, 0)]
            /\ rng' = rng + 1
            /\ alert' = NoAlert
            /\ UNCHANGED <<fixedVars, senderVars, busy, recipientVars, dec,
                           sentLink, origin, edits>>

\* f.arrayBuffer() has settled: encryption is started
PrepareRead ==
    /\ prep.pc = "read"
    /\ IF prep.fail THEN PrepareCatch
       ELSE /\ \E fail \in BOOLEAN :
                prep' = [prep EXCEPT !.pc = "encrypt", !.fail = fail,
                            !.iv = RandomBytes(IvBytes, rng)]
            /\ rng' = rng + 1
            /\ alert' = NoAlert
            /\ UNCHANGED <<fixedVars, senderVars, busy, recipientVars, dec,
                           sentLink, origin, edits>>

\* crypto.subtle.encrypt has settled: package, preview, embed decision, link
\* and the call of navigator.clipboard.writeText, which is awaited when it
\* returns a promise; with no navigator.clipboard, or a writeText that throws
\* at once, the inner catch and the finally run in this same step
PrepareEncrypted ==
    /\ prep.pc = "encrypt"
    /\ UNCHANGED <<fixedVars, uploaderOpen, mode, code, message, fileSel,
                   recipientVars, dec, rng, origin, edits>>
    /\ IF prep.fail THEN PrepareCatch
       ELSE LET packaged == PreparePackaged(prep) IN
            /\ preview' = Some(PreviewText(prep.filename, packaged))
            /\ IF TooLarge(packaged)
               THEN /\ pasteWarning' = Some(WarnTooLarge)
                    /\ shareUrl' = None
                    /\ busy' = FALSE
                    /\ prep' = IdlePrep
                    /\ sentLink' = None
               ELSE /\ shareUrl' = Some([url |-> LinkSource(prep),
                                         code |-> prep.code,
                                         size |-> Len(packaged),
                                         filename |-> prep.filename])
                    /\ sentLink' = Some(LinkSource(prep))
                    /\ \E clipboard \in BOOLEAN :
                        IF clipboard
                        THEN /\ \E fail \in BOOLEAN :
                                  prep' = [prep EXCEPT !.pc = "clip",
                                                       !.fail = fail]
                             /\ UNCHANGED busy
                        ELSE /\ busy' = FALSE
                             /\ prep' = IdlePrep
                    /\ UNCHANGED pasteWarning
            /\ alert' = NoAlert

\* a settling of the clipboard write after which the finally is not run
PrepareCopiedStillBusy ==
    /\ prep.pc = "clip"
    /\ prep' = IdlePrep
    /\ alert' = NoAlert
    /\ UNCHANGED <<fixedVars, senderVars, busy, recipientVars, dec, rng,
                   sentLink, origin, edits>>

\* navigator.clipboard.writeText has settled, either way; finally
PrepareCopied ==
    /\ prep.pc = "clip"
    /\ busy' = FALSE
    /\ prep' = IdlePrep
    /\ alert' = NoAlert
    /\ UNCHANGED <<fixedVars, senderVars, recipientVars, dec, rng, sentLink,
                   origin, edits>>

(***************************************************************************)
(* The recipient: the fragment read on load, the code field, Decrypt.      *)
(***************************************************************************)
\* String.prototype.startsWith
StartsWith(str, prefix) ==
    Len(str) >= Len(prefix) /\ SubSeq(str, 1, Len(prefix)) = prefix

\* an effect that takes what follows the first 7 characters of any fragment
FragmentEffectAnyMarker(v, frag) ==
    LET payloadB64 == SliceFrom(frag, 7)
        r == base64ToU8(payloadB64)
    IN  IF Len(payloadB64) > 0
        THEN IF r.ok
             THEN [incomingShare |-> Some(r.u8),
                   pasteWarning |-> None,
                   hash |-> IF v = "part_001" THEN <<>> ELSE frag]
             ELSE [incomingShare |-> None,
                   pasteWarning |-> Some(WarnMalformed),
                   hash |-> frag]
        ELSE [incomingShare |-> None, pasteWarning |-> None, hash |-> frag]

\* The effect that runs once on mount, on window.location.hash:
\* what it sets incomingShare, pasteWarning and the visible fragment to.
FragmentEffect(v, frag) ==
    LET payloadB64 == SliceFrom(frag, 7)
        r == base64ToU8(payloadB64)
    IN  IF StartsWith(frag, ShareMarker) /\ Len(payloadB64) > 0
        THEN IF r.ok
             THEN [incomingShare |-> Some(r.u8),
                   pasteWarning |-> None,
                   \* part_001 calls history.replaceState(null, "", pathname)
                   hash |-> IF v = "part_001" THEN <<>> ELSE frag]
             ELSE [incomingShare |-> None,
                   pasteWarning |-> Some(WarnMalformed),
                   hash |-> frag]
        ELSE [incomingShare |-> None, pasteWarning |-> None, hash |-> frag]

\* A page of the App is opened with fragment frag: every useState starts
\* from its initial value, calls in flight are gone with the old page, and
\* the mount effect has run.
LoadPage(frag, from) ==
    LET e == FragmentEffect(variant, frag) IN
    /\ uploaderOpen' = FALSE
    /\ mode' = "file"
    /\ code' = <<>>
    /\ message' = <<>>
    /\ preview' = None
    /\ shareUrl' = None
    /\ busy' = FALSE
    /\ fileSel' = None
    /\ incomingCode' = <<>>
    /\ decryptedPreview' = None
    /\ downloadReady' = None
    /\ incomingShare' = e.incomingShare
    /\ pasteWarning' = e.pasteWarning
    /\ locationHash' = e.hash
    /\ prep' = IdlePrep
    /\ dec' = IdleDec
    /\ alert' = NoAlert
    /\ origin' = from
    /\ sentLink' = None
    /\ UNCHANGED <<fixedVars, rng>>

\* the recipient opens the link the sender was given
OpenSentLink ==
    /\ IsSome(sentLink)
    /\ LoadPage(UrlOf(Val(sentLink)).hash,
                Some([link |-> Val(sentLink), kind |-> "intact",
                      failed |-> FALSE]))
    /\ UNCHANGED edits

\* a page is opened with some other fragment, typed into the address
OpenOtherFragment ==
    /\ edits < MaxEdits
    /\ \E frag \in OtherFragments : LoadPage(frag, None)
    /\ edits' = edits + 1

\* the recipient's code field: setIncomingCode(e.target.value.toUpperCase())
TypeIncomingCode ==
    /\ RecipientShown
    /\ edits < MaxEdits
    /\ \E c \in TypedIncomingCodes : incomingCode' = ToUpperCase(c)
    /\ edits' = edits + 1
    /\ alert' = NoAlert
    /\ UNCHANGED <<fixedVars, senderVars, busy, incomingShare, decryptedPreview,
                   downloadReady, locationHash, prep, dec, rng, sentLink, origin>>

\* /^[\x09\x0a\x0d\x20-\x7e]*$/.test(txt.slice(0, 500))
IsText(txt) ==
    \A i \in 1..Min(Len(txt), 500) :
        txt[i] \in {9, 10, 13} \/ (txt[i] >= 32 /\ txt[i] <= 126)

\* the record that a Decrypt of the loaded share has failed
NoteFailure(o) ==
    IF IsSome(o) THEN Some([Val(o) EXCEPT !.failed = TRUE]) ELSE o

\* a catch whose alert tells a failed derivation from a failed decryption
DecryptCatchTelling ==
    /\ alert' = IF dec.pc = "derive" THEN "Bad parameters" ELSE AlertDecrypt
    /\ busy' = FALSE
    /\ dec' = IdleDec
    /\ origin' = NoteFailure(origin)
    /\ UNCHANGED <<fixedVars, senderVars, recipientVars, prep, rng, sentLink,
                   edits>>

\* catch and finally of handleDownloadFromShare
DecryptCatch ==
    /\ alert' = AlertDecrypt
    /\ busy' = FALSE
    /\ dec' = IdleDec
    /\ origin' = NoteFailure(origin)
    /\ UNCHANGED <<fixedVars, senderVars, recipientVars, prep, rng, sentLink,
                   edits>>

\* a click on Decrypt that does not look at the length of the code
DecryptClickUnchecked ==
    /\ RecipientShown
    /\ ~busy
    /\ busy' = TRUE
    /\ \E fail \in BOOLEAN :
        dec' = [pc |-> "derive", fail |-> fail, code |-> incomingCode,
                payload |-> Val(incomingShare)]
    /\ alert' = NoAlert
    /\ UNCHANGED <<fixedVars, senderVars, recipientVars, prep, rng, sentLink,
                   origin, edits>>

\* the click on Decrypt & Download (the button is disabled while busy), up
\* to the await of deriveKeyFromCode
DecryptClick ==
    /\ RecipientShown
    /\ ~busy
    /\ IF Len(incomingCode) # 10
       THEN /\ alert' = AlertIncomingCode
            /\ busy' = FALSE
            /\ UNCHANGED dec
       ELSE /\ busy' = TRUE
            /\ \E fail \in BOOLEAN :
                dec' = [pc |-> "derive", fail |-> fail, code |-> incomingCode,
                        payload |-> Val(incomingShare)]
            /\ alert' = NoAlert
    /\ UNCHANGED <<fixedVars, senderVars, recipientVars, prep, rng, sentLink,
                   origin, edits>>

\* deriveKeyFromCode has settled: crypto.subtle.decrypt is started
DecryptDerived ==
    /\ dec.pc = "derive"
    /\ IF dec.fail THEN DecryptCatch
       ELSE /\ \E fail \in BOOLEAN :
                dec' = [dec EXCEPT !.pc = "decrypt", !.fail = fail]
            /\ alert' = NoAlert
            /\ UNCHANGED <<fixedVars, senderVars, busy, recipientVars, prep, rng,
                           sentLink, origin, edits>>

\* what crypto.subtle.decrypt settles with for the call in flight
DecryptResult(d) ==
    LET u == unpackageEncrypted(d.payload)
    IN  decryptArrayBuffer(deriveKeyFromCode(d.code, u.salt), u.encrypted)

\* a settling of the decryption that fails what is not a text
DecryptDoneTextOnly ==
    /\ dec.pc = "decrypt"
    /\ LET r == DecryptResult(dec) IN
       IF dec.fail \/ ~r.ok \/ ~IsText(TextDecode(r.plain)) THEN DecryptCatch
       ELSE /\ decryptedPreview' = Some(Slice(TextDecode(r.plain), 0, 10000))
            /\ downloadReady' =
                    Some([content |-> r.plain,
                          filename |-> unpackageEncrypted(dec.payload).filename,
                          size |-> Len(r.plain)])
            /\ busy' = FALSE
            /\ dec' = IdleDec
            /\ alert' = NoAlert
            /\ UNCHANGED <<fixedVars, senderVars, incomingShare, incomingCode,
                           locationHash, prep, rng, sentLink, origin, edits>>

\* crypto.subtle.decrypt has settled: preview of a text, the download.  The
\* classification runs in a try of its own; what it throws is caught there
\* and leaves the preview as it is.
DecryptDone ==
    /\ dec.pc = "decrypt"
    /\ busy' = FALSE
    /\ dec' = IdleDec
    /\ UNCHANGED <<fixedVars, senderVars, incomingShare, incomingCode,
                   locationHash, prep, rng, sentLink, edits>>
    /\ LET r == DecryptResult(dec) IN
       IF dec.fail \/ ~r.ok THEN DecryptCatch
       ELSE LET txt == TextDecode(r.plain) IN
            /\ \E thrown \in BOOLEAN :
                decryptedPreview' =
                    IF ~thrown /\ IsText(txt) THEN Some(Slice(txt, 0, 10000))
                    ELSE decryptedPreview
            /\ downloadReady' =
                    Some([content |-> r.plain,
                          filename |-> unpackageEncrypted(dec.payload).filename,
                          size |-> Len(r.plain)])
            /\ alert' = NoAlert
            /\ UNCHANGED origin

\* handleClearIncoming (Close) / handleClearFragment (Clear)
\* "Copy Link" of the recipient panel of part_002: writeText is not awaited,
\* so the catch is reached only when navigator.clipboard is missing
CopyLink ==
    /\ variant = "part_002"
    /\ RecipientShown
    /\ \E clipboard \in BOOLEAN :
        alert' = IF clipboard THEN "Link copied" ELSE "Copy failed"
    /\ UNCHANGED <<fixedVars, appVars, prep, dec, rng, sentLink, origin,
                   edits>>

ClearIncoming ==
    /\ ClearShown
    /\ incomingShare' = None
    /\ incomingCode' = <<>>
    /\ decryptedPreview' = None
    /\ downloadReady' = None
    /\ pasteWarning' = None
    /\ locationHash' = <<>>
    /\ origin' = None
    /\ alert' = NoAlert
    /\ UNCHANGED <<fixedVars, uploaderOpen, mode, code, message, preview, shareUrl,
                   busy, fileSel, prep, dec, rng, sentLink, edits>>

(***************************************************************************)
(* The App.                                                                *)
(***************************************************************************)
Next ==
    \/ openUploader
    \/ CloseUploader
    \/ SetMode
    \/ TypeCode
    \/ NewCode
    \/ TypeMessage
    \/ SelectFile
    \/ PrepareClick
    \/ PrepareDerived
    \/ PrepareRead
    \/ PrepareEncrypted
    \/ PrepareCopied
    \/ OpenSentLink
    \/ OpenOtherFragment
    \/ TypeIncomingCode
    \/ DecryptClick
    \/ DecryptDerived
    \/ DecryptDone
    \/ CopyLink
    \/ ClearIncoming

Spec == Init /\ [][Next]_vars

(***************************************************************************)
(* The package codec on its own: packageEncrypted on drawn inputs, then    *)
(* unpackageEncrypted on the package, and unpackageEncrypted on buffers    *)
(* that no sender produced.                                                *)
(***************************************************************************)
\* filenames: empty, "a", an e with acute accent, U+FEFF followed by "a",
\* 255 and 256 letters
MaxNameLen == 255
CodecFilenames ==
    {<<>>, <<97>>, <<233>>, <<65279, 97>>,
     Array([i \in 1..MaxNameLen |-> 98]),
     Array([i \in 1..(MaxNameLen + 1) |-> 98])}

\* salts of 16 bytes
CodecSalts == {RandomBytes(SaltBytes, 0), Array([i \in 1..SaltBytes |-> 255])}

\* encrypted blobs: empty, one byte, nonce and tag of an empty plaintext,
\* and one of a plaintext of three bytes
BlobLen == 31
CodecBlobs ==
    {<<>>, <<7>>, Array([i \in 1..(IvBytes + TagBytes) |-> i]),
     Array([i \in 1..BlobLen |-> (i * 37) % 256])}

\* buffers handed to unpackageEncrypted as they are: every length from 0 to
\* MaxBufferLen, with a filename length byte of 0, 1, 5 and 255
MaxBufferLen == 24
CodecBuffers ==
    {Array([i \in 1..n |-> IF i = 17 THEN k ELSE 64 + i]) :
        n \in 0..MaxBufferLen, k \in {0, 1, 5, 255}}

InitCodec ==
    /\ InitApp
    /\ InitUploadPage
    /\ \/ \E st \in CodecSalts, fn \in CodecFilenames, bl \in CodecBlobs :
            codec = [NoCodec EXCEPT !.phase = "input", !.salt = st,
                        !.filename = fn, !.blob = bl]
       \/ \E buf \in CodecBuffers :
            codec = [NoCodec EXCEPT !.phase = "buffer", !.packed = buf]

CodecPack ==
    /\ codec.phase = "input"
    /\ codec' = [codec EXCEPT !.phase = "packed",
                    !.packed = packageEncrypted(codec.salt, codec.filename,
                                                codec.blob)]
    /\ UNCHANGED <<variant, appVars, prep, dec, alert, rng, sentLink, origin, edits,
                   file, downloadUrl, status, uploads, started>>

CodecUnpack ==
    /\ codec.phase = "packed"
    /\ codec' = [codec EXCEPT !.phase = "unpacked",
                    !.out = unpackageEncrypted(codec.packed)]
    /\ UNCHANGED <<variant, appVars, prep, dec, alert, rng, sentLink, origin, edits,
                   file, downloadUrl, status, uploads, started>>

CodecUnpackBuffer ==
    /\ codec.phase = "buffer"
    /\ codec' = [codec EXCEPT !.phase = "unpackedBuffer",
                    !.out = unpackageEncrypted(codec.packed)]
    /\ UNCHANGED <<variant, appVars, prep, dec, alert, rng, sentLink, origin, edits,
                   file, downloadUrl, status, uploads, started>>

NextCodec == CodecPack \/ CodecUnpack \/ CodecUnpackBuffer

SpecCodec == InitCodec /\ [][NextCodec]_vars

(***************************************************************************)
(* A link that is changed on its way to the recipient.                     *)
(***************************************************************************)
\* the package a link carries
LinkPackage(link) ==
    base64ToU8(SliceFrom(UrlOf(link).hash, Len(ShareMarker))).u8

\* where the encrypted region (nonce, ciphertext, tag) of the link's package
\* starts, 0-based
EncryptedOffset(link) == SaltBytes + 1 + Len(TextEncode(link.filename))

\* the package with the byte at 0-based offset pos changed by delta
ChangeByte(pkg, pos, delta) ==
    [pkg EXCEPT ![pos + 1] = (pkg[pos + 1] + delta) % 256]

\* the changes of one byte: plus one, and the top bit flipped
ByteDeltas == {1, 128}

\* every package that differs from the link's in one byte of the encrypted
\* region, or is cut somewhere inside that region
TamperedPackages(link) ==
    LET pkg == LinkPackage(link)
        from == EncryptedOffset(link)
    IN  [kind : {"changed"},
         pkg : {ChangeByte(pkg, pos, d) : pos \in from..(Len(pkg) - 1),
                                           d \in ByteDeltas}]
        \cup
        [kind : {"truncated"},
         pkg : {Slice(pkg, 0, n) : n \in from..(Len(pkg) - 1)}]

\* the recipient opens the sender's link after it was tampered with
OpenTamperedLink ==
    /\ IsSome(sentLink)
    /\ \E t \in TamperedPackages(Val(sentLink)) :
        LoadPage(ShareMarker \o u8ToBase64(t.pkg),
                 Some([link |-> Val(sentLink), kind |-> t.kind,
                       failed |-> FALSE]))
    /\ UNCHANGED edits

\* the sender picks the file before anything else is edited
SelectFileFirst ==
    /\ edits = 0
    /\ SelectFile

\* the sender prepares once
PrepareClickFirst ==
    /\ rng = 0
    /\ PrepareClick

\* the recipient types the sender's code
TypeSentCode ==
    /\ IsSome(origin)
    /\ TypeIncomingCode
    /\ incomingCode' = Val(origin).link.code

\* a sender who prepares a file, and a recipient who gets the link tampered
\* with and has the right code
NextTamper ==
    \/ openUploader
    \/ SelectFileFirst
    \/ PrepareClickFirst
    \/ PrepareDerived
    \/ PrepareRead
    \/ PrepareEncrypted
    \/ PrepareCopied
    \/ OpenTamperedLink
    \/ TypeSentCode
    \/ DecryptClick
    \/ DecryptDerived
    \/ DecryptDone

SpecTamper == Init /\ [][NextTamper]_vars

(***************************************************************************)
(* Files around the embed threshold.                                       *)
(***************************************************************************)
\* "a.bin"
BigName == <<97, 46, 98, 105, 110>>
\* the plaintext length with which a package named BigName has exactly
\* MAX_EMBED_BYTES bytes
FitLen == MAX_EMBED_BYTES - (SaltBytes + 1 + Len(BigName) + IvBytes + TagBytes)

FileFit == [name |-> BigName, head |-> <<>>, rest |-> FitLen]
FileOver == [name |-> BigName, head |-> <<>>, rest |-> FitLen + 1]
ThresholdFiles == {FileBinary, FileFit, FileOver}

\* the sender picks a file, once
SelectBigFile ==
    /\ UploaderShown
    /\ mode = "file"
    /\ fileSel = None
    /\ edits < MaxEdits
    /\ \E f \in ThresholdFiles : fileSel' = Some(f)
    /\ edits' = edits + 1
    /\ alert' = NoAlert
    /\ UNCHANGED <<fixedVars, uploaderOpen, mode, code, message, preview,
                   shareUrl, busy, pasteWarning, recipientVars, prep, dec, rng,
                   sentLink, origin>>

\* a sender who prepares files around the threshold
NextThreshold ==
    \/ openUploader
    \/ SelectBigFile
    \/ PrepareClick
    \/ PrepareDerived
    \/ PrepareRead
    \/ PrepareEncrypted
    \/ PrepareCopied

SpecThreshold == Init /\ [][NextThreshold]_vars

(***************************************************************************)
(* Properties of the package codec, under SpecCodec.                       *)
(***************************************************************************)
\* C2: codec round trip.  For a salt of 16 bytes, a filename of at most 255
\* encoded bytes (the empty one included) and any encrypted blob,
\* unpackageEncrypted(packageEncrypted(salt, filename, blob)) is exactly
\* (salt, filename, blob).
C2_CodecRoundTrip ==
    (/\ codec.phase = "unpacked"
     /\ Len(codec.salt) = 16
     /\ Len(TextEncode(codec.filename)) <= MaxNameLen)
    => codec.out = [salt |-> codec.salt, filename |-> codec.filename,
                    encrypted |-> codec.blob]

\* C6: bounds safety.  unpackageEncrypted of a buffer shorter than 17 bytes,
\* or shorter than 17 + N with N the byte at offset 16, reports a format
\* error and yields no salt, filename or encrypted blob taken from the buffer.
C6_BoundsSafety ==
    (/\ codec.phase = "unpackedBuffer"
     /\ \/ Len(codec.packed) < 17
        \/ Len(codec.packed) < 17 + codec.packed[17])
    => /\ codec.out.salt = <<>>
       /\ codec.out.filename = <<>>
       /\ codec.out.encrypted = <<>>

(***************************************************************************)
(* Properties of the App, under Spec.                                      *)
(***************************************************************************)
\* C1: end-to-end round trip.  When the recipient has opened the link a
\* Prepare produced and Decrypt runs with the sender's secret, it ends with
\* downloadReady set to exactly the sender's plaintext bytes and the sender's
\* filename.
C1_EndToEndRoundTrip ==
    [][(/\ IsSome(origin)
        /\ Val(origin).kind = "intact"
        /\ dec.pc = "decrypt"
        /\ ~dec.fail
        /\ dec.code = Val(origin).link.code
        /\ DecryptDone)
       => /\ IsSome(downloadReady')
          /\ Val(downloadReady').content = PreparePlain(Val(origin).link)
          /\ Val(downloadReady').filename = Val(origin).link.filename]_vars

\* C3: wrong-secret rejection.  A Decrypt of a sender's package with a
\* 10-character secret other than the sender's ends with the
\* decryption-failed alert, and no step of that attempt sets downloadReady or
\* decryptedPreview.
C3_WrongSecretRejected ==
    [][(/\ IsSome(origin)
        /\ Val(origin).kind = "intact"
        /\ dec.pc \in {"derive", "decrypt"}
        /\ Len(dec.code) = 10
        /\ dec.code # Val(origin).link.code
        /\ (DecryptDerived \/ DecryptDone))
       => /\ UNCHANGED <<downloadReady, decryptedPreview>>
          /\ (dec.pc = "decrypt" => alert' = AlertDecrypt /\ dec' = IdleDec /\ ~busy')]_vars

\* the recipient of a sender's link was told that decryption failed, with a
\* 10-character code in the field that is not the sender's
C3_Witness ==
    /\ IsSome(origin)
    /\ Val(origin).kind = "intact"
    /\ alert = AlertDecrypt
    /\ Len(incomingCode) = 10
    /\ incomingCode # Val(origin).link.code
    /\ downloadReady = None
    /\ decryptedPreview = None

\* C7: package invariant.  In every package a Prepare produces, the byte at
\* offset 16 is the number N of filename bytes that follow it, N is at most
\* 255, and the encrypted blob starts at offset 17 + N.
C7_PackageInvariant ==
    [][(/\ prep.pc = "encrypt"
        /\ ~prep.fail
        /\ PrepareEncrypted)
       => LET packaged == PreparePackaged(prep)
              filenameBytes == TextEncode(prep.filename)
              blob == encryptArrayBuffer(deriveKeyFromCode(prep.code, prep.salt),
                                         prep.iv, PreparePlain(prep))
          IN  /\ packaged[17] = Len(filenameBytes)
              /\ packaged[17] <= 255
              /\ Slice(packaged, 17, 17 + packaged[17]) = filenameBytes
              /\ SliceFrom(packaged, 17 + packaged[17]) = blob]_vars

\* C8: entering Packaging.  A click on Prepare makes the App busy (and draws
\* the salt and starts the derivation) only if the code has 10 characters
\* and there is a payload: a selected file in file mode, a message that is
\* not blank in message mode.
C8_PackagingNeedsPayload ==
    [][(PrepareClick /\ busy')
       => /\ Len(code) = 10
          /\ IF mode = "file" THEN IsSome(fileSel)
             ELSE Len(Trim(message)) > 0]_vars

\* C9: a Prepare that fails validation has no side effects.  The click
\* changes none of preview, shareUrl, pasteWarning, code, message and mode,
\* and the step that shows a validation alert changes none of them either and
\* leaves busy as it was before the click, FALSE.
C9_ValidationNoSideEffects ==
    [][/\ PrepareClick
            => UNCHANGED <<preview, shareUrl, pasteWarning, code, message, mode>>
       /\ ((PrepareClick \/ PrepareDerived)
                /\ alert' \in {AlertCode, AlertFile, AlertMessage})
            => /\ UNCHANGED <<preview, shareUrl, pasteWarning, code, message, mode>>
               /\ busy' = FALSE
               /\ prep' = IdlePrep]_vars

\* a Prepare without a file has just returned with its alert
C9_Witness ==
    /\ alert = AlertFile
    /\ ~busy
    /\ prep = IdlePrep

\* C10: failure of the derivation or of the encryption.  The attempt ends
\* with the generic encryption-failed alert, not busy, and no step of it has
\* set shareUrl or preview.
C10_CryptoFailureExposesNothing ==
    [][/\ (PrepareClick \/ PrepareDerived \/ PrepareRead)
            => UNCHANGED <<shareUrl, preview>>
       /\ (prep.pc \in {"derive", "encrypt"} /\ prep.fail
                /\ (PrepareDerived \/ PrepareEncrypted))
            => /\ alert' = AlertEncrypt
               /\ UNCHANGED <<shareUrl, preview, pasteWarning>>
               /\ busy' = FALSE
               /\ prep' = IdlePrep]_vars

\* an attempt has just failed and the App shows neither a link nor a preview
C10_Witness ==
    /\ alert = AlertEncrypt
    /\ ~busy
    /\ prep = IdlePrep
    /\ shareUrl = None
    /\ preview = None

(***************************************************************************)
(* Tampered links, under SpecTamper.                                       *)
(***************************************************************************)
\* C4: tamper detection.  When one byte of the encrypted region of the
\* sender's package was changed, or the region was cut, a Decrypt with the
\* sender's secret ends with the decryption-failed alert, and neither
\* decryptedPreview nor downloadReady is set.
C4_TamperDetected ==
    [][(/\ IsSome(origin)
        /\ Val(origin).kind \in {"changed", "truncated"}
        /\ dec.pc = "decrypt"
        /\ dec.code = Val(origin).link.code
        /\ DecryptDone)
       => /\ alert' = AlertDecrypt
          /\ downloadReady' = None
          /\ decryptedPreview' = None
          /\ dec' = IdleDec
          /\ ~busy']_vars

\* the recipient of a link with a changed byte has typed the sender's code
\* and was told that decryption failed
C4_Witness ==
    /\ IsSome(origin)
    /\ Val(origin).kind = "changed"
    /\ incomingCode = Val(origin).link.code
    /\ alert = AlertDecrypt
    /\ downloadReady = None
    /\ decryptedPreview = None

(***************************************************************************)
(* The embed threshold, under SpecThreshold.                               *)
(***************************************************************************)
\* C5: threshold boundary.  A Prepare produces a share link exactly when the
\* length of its package is at most 96 * 1024; a package of 98304 bytes is
\* embedded, one of 98305 bytes gets the too-large warning and no link.  The
\* plaintext of either is below the threshold: the package length decides.
C5_ThresholdBoundary ==
    [][(/\ prep.pc = "encrypt"
        /\ ~prep.fail
        /\ prep'.pc # "encrypt")
       => LET size == Len(PreparePackaged(prep))
          IN  /\ IsSome(preview')
              /\ IsSome(shareUrl') <=> size <= 96 * 1024
              /\ IsSome(shareUrl') => Val(shareUrl').size = size
              /\ size = 98304 => IsSome(shareUrl')
              /\ size = 98305 =>
                    /\ shareUrl' = None
                    /\ pasteWarning' = Some(WarnTooLarge)
                    /\ Len(PreparePlain(prep)) < 96 * 1024]_vars

\* a package of exactly 96 * 1024 bytes was embedded in a link
C5_Witness ==
    /\ IsSome(shareUrl)
    /\ Val(shareUrl).size = 98304

\* C11: the too-large path.  When the package of a Prepare is longer than
\* the embed threshold, the attempt ends with shareUrl null, no link to hand
\* out, the warning that tells the user to upload the encrypted blob and
\* share a short ID, and the App no longer busy.
C11_TooLargeNeedsStore ==
    [][(/\ prep.pc = "encrypt"
        /\ ~prep.fail
        /\ prep'.pc # "encrypt"
        /\ Len(PreparePackaged(prep)) > MAX_EMBED_BYTES)
       => /\ shareUrl' = None
          /\ sentLink' = None
          /\ pasteWarning' = Some(WarnTooLarge)
          /\ prep' = IdlePrep
          /\ ~busy']_vars

\* a Prepare of the file that is one byte too long has ended with the
\* warning and without a link
C11_Witness ==
    /\ pasteWarning = Some(WarnTooLarge)
    /\ shareUrl = None
    /\ IsSome(preview)
    /\ IsSome(fileSel)
    /\ Val(fileSel) = FileOver
    /\ prep = IdlePrep
    /\ ~busy

(***************************************************************************)
(* The recipient, under Spec.                                              *)
(***************************************************************************)
\* C12: the recipient's code.  A click on Decrypt with a code that is not 10
\* characters long starts no derivation: it shows the enter-code alert and
\* leaves the package loaded, nothing decrypted and the App not busy.  A
\* click with a code of 10 characters starts the derivation with that code.
C12_DecryptNeedsCode ==
    [][DecryptClick
       => IF Len(incomingCode) # 10
          THEN /\ alert' = AlertIncomingCode
               /\ dec' = IdleDec
               /\ ~busy'
               /\ UNCHANGED <<incomingShare, incomingCode, downloadReady,
                              decryptedPreview>>
          ELSE /\ dec'.pc = "derive"
               /\ dec'.code = incomingCode
               /\ busy']_vars

\* the recipient of a package has clicked Decrypt with a code that is too
\* short and sees the enter-code alert
C12_Witness ==
    /\ alert = AlertIncomingCode
    /\ IsSome(incomingShare)
    /\ Len(incomingCode) < 10
    /\ dec = IdleDec
    /\ ~busy

\* C13: the classification does not gate the result.  Every decryption
\* that authenticates ends with downloadReady set to the whole plaintext and
\* the filename of the package, without an alert, whether the plaintext is
\* classified as text, as binary, or the classification throws.
C13_ClassificationDoesNotGate ==
    [][(/\ dec.pc = "decrypt"
        /\ ~dec.fail
        /\ DecryptResult(dec).ok
        /\ DecryptDone)
       => /\ IsSome(downloadReady')
          /\ Val(downloadReady').content = DecryptResult(dec).plain
          /\ Val(downloadReady').size = Len(DecryptResult(dec).plain)
          /\ Val(downloadReady').filename = unpackageEncrypted(dec.payload).filename
          /\ alert' = NoAlert
          /\ dec' = IdleDec
          /\ ~busy']_vars

\* a plaintext that is not a text was decrypted and is ready for download,
\* without a preview
C13_Witness ==
    /\ IsSome(downloadReady)
    /\ ~IsText(TextDecode(Val(downloadReady).content))
    /\ decryptedPreview = None
    /\ alert = NoAlert

(***************************************************************************)
(* Every cause of a failed decryption in one specification: a wrong code,  *)
(* a changed or truncated package, a fragment no sender produced, a        *)
(* derivation or decryption that rejects.                                  *)
(***************************************************************************)
NextOracle ==
    \/ openUploader
    \/ SelectFileFirst
    \/ PrepareClickFirst
    \/ PrepareDerived
    \/ PrepareRead
    \/ PrepareEncrypted
    \/ PrepareCopied
    \/ OpenSentLink
    \/ OpenTamperedLink
    \/ OpenOtherFragment
    \/ TypeIncomingCode
    \/ DecryptClick
    \/ DecryptDerived
    \/ DecryptDone

SpecOracle == Init /\ [][NextOracle]_vars

\* C14: anti-oracle.  Whatever makes a Decrypt fail (the derivation rejects,
\* the decryption rejects, the tag does not verify because the code is wrong
\* or the package was changed or cut), the step that ends the attempt shows
\* the one decryption-failed alert and leads to the same state: not busy, no
\* call in flight, everything else as it was.
C14_AntiOracle ==
    [][(/\ (DecryptDerived \/ DecryptDone)
        /\ \/ dec.fail
           \/ dec.pc = "decrypt" /\ ~DecryptResult(dec).ok)
       => /\ alert' = AlertDecrypt
          /\ ~busy'
          /\ dec' = IdleDec
          /\ UNCHANGED <<senderVars, recipientVars>>]_vars

\* the recipient of a truncated package was shown the decryption-failed
\* alert
C14_Witness ==
    /\ IsSome(origin)
    /\ Val(origin).kind = "truncated"
    /\ alert = AlertDecrypt
    /\ Len(incomingCode) = 10
    /\ dec = IdleDec
    /\ ~busy

(***************************************************************************)
(* More properties of the App, under Spec.                                 *)
(***************************************************************************)
\* C15: a failed decryption is recoverable.  The step that fails a Decrypt
\* leaves the package loaded and the App not busy, and a Decrypt of the
\* sender's package with the sender's code that comes after a failed one
\* ends with downloadReady set.
C15_FailureRecoverable ==
    [][/\ ((DecryptDerived \/ DecryptDone) /\ alert' = AlertDecrypt)
            => /\ UNCHANGED incomingShare
               /\ ~busy'
               /\ dec' = IdleDec
       /\ (/\ IsSome(origin)
           /\ Val(origin).kind = "intact"
           /\ Val(origin).failed
           /\ dec.pc = "decrypt"
           /\ ~dec.fail
           /\ dec.code = Val(origin).link.code
           /\ DecryptDone)
            => IsSome(downloadReady')]_vars

\* C16: a malformed share link.  After a load with '#share:' followed by
\* text that is not base64 no package is loaded, and the 'Malformed share
\* link' warning is set and rendered in the view on display.
C16_MalformedLinkShown ==
    pasteWarning = Some(WarnMalformed)
        => /\ incomingShare = None
           /\ WarningShown

\* C17: other fragments are ignored.  A load with a fragment that does not
\* start with '#share:' (the empty one included), or that is '#share:' and
\* nothing more, leaves incomingShare null and sets no warning; the landing
\* view is shown and the fragment stays in the address.
C17_OtherFragmentsIgnored ==
    [][\A frag \in OtherFragments :
        (/\ LoadPage(frag, None)
         /\ (~StartsWith(frag, ShareMarker) \/ frag = ShareMarker))
        => /\ incomingShare' = None
           /\ pasteWarning' = None
           /\ LandingShown'
           /\ ~RecipientShown'
           /\ locationHash' = frag]_vars

\* the page was opened with "#SHARE:QUJD" and shows the landing view, with
\* no package and no warning
C17_Witness ==
    /\ locationHash = UpperMarkerFragment
    /\ incomingShare = None
    /\ pasteWarning = None
    /\ LandingShown
    /\ ~uploaderOpen

(***************************************************************************)
(* The link of a package, under SpecCodec.                                 *)
(***************************************************************************)
\* C18: the form of a link.  The link of a package is the origin, the path
\* and the fragment '#share:' followed at once by the base64 text of the
\* package; base64ToU8 is the inverse of u8ToBase64 on the package, and the
\* mount effect, given the fragment, loads exactly the package bytes.
C18_LinkFormAndInverse ==
    codec.phase = "packed"
        => LET link == ShareLinkUrl(codec.packed)
               b64 == u8ToBase64(codec.packed)
           IN  /\ link.origin = LocationOrigin
               /\ link.pathname = LocationPathname
               /\ link.hash = ShareMarker \o b64
               /\ \A i \in 1..Len(b64) : b64[i] = B64Char(B64Val(b64[i])) \/ b64[i] = 61
               /\ Len(b64) = 4 * ((Len(codec.packed) + 2) \div 3)
               /\ base64ToU8(b64) = [ok |-> TRUE, u8 |-> codec.packed]
               /\ base64ToU8(SliceFrom(link.hash, 7)).u8 = codec.packed
               /\ FragmentEffect(variant, link.hash).incomingShare
                    = Some(codec.packed)

\* a package whose length leaves two bytes for the last base64 group
C18_Witness ==
    /\ codec.phase = "packed"
    /\ Len(codec.packed) > 17
    /\ Len(codec.packed) % 3 = 2

(***************************************************************************)
(* The random draws of a Prepare, under Spec.                              *)
(***************************************************************************)
\* C19: fresh salt and nonce.  A Prepare that passes the code check takes
\* the next 16 bytes of the random source as its salt, and a Prepare that
\* reaches the encryption takes the next 12 bytes as its nonce, each a draw
\* that no earlier draw of the behaviour returned; and the package a Prepare
\* produces while the link of an earlier one is on display shares neither
\* the salt nor the nonce with it.
C19_FreshSaltAndNonce ==
    [][/\ (PrepareClick /\ busy')
            => /\ prep'.salt = RandomBytes(SaltBytes, rng)
               /\ Len(prep'.salt) = 16
               /\ rng' = rng + 1
               /\ \A k \in 0..(rng - 1) :
                    /\ prep'.salt # RandomBytes(SaltBytes, k)
                    /\ prep'.salt # RandomBytes(IvBytes, k)
       /\ ((PrepareDerived \/ PrepareRead) /\ prep'.pc = "encrypt")
            => /\ prep'.iv = RandomBytes(IvBytes, rng)
               /\ Len(prep'.iv) = 12
               /\ rng' = rng + 1
               /\ prep'.salt = prep.salt
               /\ \A k \in 0..(rng - 1) :
                    /\ prep'.iv # RandomBytes(SaltBytes, k)
                    /\ prep'.iv # RandomBytes(IvBytes, k)
       /\ (prep.pc = "encrypt" /\ ~prep.fail /\ PrepareEncrypted
                /\ IsSome(shareUrl))
            => /\ prep.salt # Val(shareUrl).url.salt
               /\ prep.iv # Val(shareUrl).url.iv
               /\ Slice(PreparePackaged(prep), 0, 16) = prep.salt
               /\ Slice(PreparePackaged(prep), 0, 16)
                    # Slice(PreparePackaged(Val(shareUrl).url), 0, 16)]_vars

\* the link on display is that of a second package, made with the same code
\* from the same file as the first
C19_Witness ==
    /\ IsSome(shareUrl)
    /\ Val(shareUrl).url.salt = RandomBytes(SaltBytes, 2)
    /\ Val(shareUrl).url.iv = RandomBytes(IvBytes, 3)
    /\ edits = 1

(***************************************************************************)
(* One operation at a time, under Spec.                                    *)
(***************************************************************************)
\* C20: one operation at a time.  A Prepare or a Decrypt starts only when
\* the App is not busy and no Prepare and no Decrypt is in flight; while one
\* is in flight the App is busy, and there are never two in flight, in the
\* sender view, the recipient view, or across the two.
C20_OneOperationAtATime ==
    [][/\ ((PrepareClick \/ DecryptClick) /\ busy')
            => /\ ~busy
               /\ prep.pc = "idle"
               /\ dec.pc = "idle"
       /\ (prep'.pc # "idle" \/ dec'.pc # "idle") => busy'
       /\ ~(prep'.pc # "idle" /\ dec'.pc # "idle")]_vars

\* part_002 shows the uploader, ready for a Prepare, beside the recipient
\* panel while a Decrypt is in flight
C20_Witness ==
    /\ variant = "part_002"
    /\ UploaderShown
    /\ RecipientShown
    /\ Len(code) = 10
    /\ IsSome(fileSel)
    /\ dec.pc = "decrypt"
    /\ prep.pc = "idle"
    /\ busy

(***************************************************************************)
(* What the sender's state holds beside a link, under Spec.                *)
(***************************************************************************)
\* C21: no retention.  In every state where a share link is present, the
\* secret the package was made with is held neither in the code field nor
\* in the share-link record, and the message that was encrypted is not held
\* in the message field.
C21_NoRetention ==
    IsSome(shareUrl)
        => LET made == Val(shareUrl).url IN
           /\ Val(shareUrl).code # made.code
           /\ code # made.code
           /\ (made.mode = "message" => message # made.message)

\* C22: filename and length of a package.  A Prepare in message mode names
\* its payload 'message.txt', one in file mode gives it the name of the
\* selected file, and the package it makes is 16 + 1 + N + 12 + P + 16
\* bytes long, N the encoded filename's and P the plaintext's length in
\* bytes; the message 'hello' gives 16 + 1 + 11 + 12 + 5 + 16 = 61 bytes.
C22_FilenameAndLength ==
    [][/\ (PrepareDerived /\ prep'.pc = "encrypt")
            => /\ prep.mode = "message"
               /\ prep'.filename = MessageTxt
       /\ (PrepareDerived /\ prep'.pc = "read")
            => /\ prep.mode = "file"
               /\ prep'.filename = Val(fileSel).name
               /\ prep'.file = Val(fileSel)
       /\ (PrepareEncrypted /\ ~prep.fail)
            => LET packaged == PreparePackaged(prep)
                   N == Len(TextEncode(prep.filename))
                   P == Len(PreparePlain(prep))
               IN  /\ Len(packaged) = 16 + 1 + N + 12 + P + TagBytes
                   /\ (prep.mode = "message" /\ prep.message = Hello)
                        => Len(packaged) = 16 + 1 + 11 + 12 + 5 + TagBytes
                   /\ Val(preview').filename = prep.filename
                   /\ IsSome(shareUrl')
                        => /\ Val(shareUrl').size = Len(packaged)
                           /\ Val(shareUrl').filename = prep.filename]_vars

\* the link of the message 'hello': message.txt, 61 bytes
C22_Witness ==
    /\ IsSome(shareUrl)
    /\ Val(shareUrl).url.mode = "message"
    /\ Val(shareUrl).url.message = Hello
    /\ Val(shareUrl).filename = MessageTxt
    /\ Val(shareUrl).size = 61

\* C23: the fragment leaves the address, the package stays.  A page load
\* whose fragment decodes to a package leaves incomingShare holding the
\* decoded bytes (the sender's package, for the sender's link) and the
\* address without fragment, and a Decrypt started later works on the
\* package held in incomingShare.
C23_FragmentRemoved ==
    [][/\ ((OpenSentLink \/ OpenOtherFragment) /\ IsSome(incomingShare'))
            => /\ locationHash' = <<>>
               /\ OpenSentLink
                    => Val(incomingShare') = PreparePackaged(Val(sentLink))
       /\ (DecryptClick /\ dec'.pc = "derive")
            => /\ locationHash = <<>>
               /\ dec'.payload = Val(incomingShare)]_vars

\* C24: cleared means cleared.  While no share is loaded (before any load,
\* and from the recipient's clear action to the next load) decryptedPreview
\* and downloadReady are null, a Decrypt in flight at the time of the clear
\* included.
C24_ClearStaysClear ==
    incomingShare = None
        => /\ decryptedPreview = None
           /\ downloadReady = None

\* C25: a closed uploader holds no link.  In every state where the uploader
\* is closed, shareUrl and preview are null, a Close clicked while a Prepare
\* is in flight included.
C25_ClosedUploaderNoLink ==
    ~uploaderOpen
        => /\ shareUrl = None
           /\ preview = None

(***************************************************************************)
(* A sender who replaces the file between two Prepares.                    *)
(***************************************************************************)
\* the small file is picked in place of whatever was selected
SelectSmallFile ==
    /\ UploaderShown
    /\ mode = "file"
    /\ fileSel # Some(FileBinary)
    /\ edits < MaxEdits
    /\ fileSel' = Some(FileBinary)
    /\ edits' = edits + 1
    /\ alert' = NoAlert
    /\ UNCHANGED <<fixedVars, uploaderOpen, mode, code, message, preview,
                   shareUrl, busy, pasteWarning, recipientVars, prep, dec, rng,
                   sentLink, origin>>

NextResend ==
    \/ openUploader
    \/ SelectBigFile
    \/ SelectSmallFile
    \/ PrepareClick
    \/ PrepareDerived
    \/ PrepareRead
    \/ PrepareEncrypted
    \/ PrepareCopied

SpecResend == Init /\ [][NextResend]_vars

\* C26: link and too-large warning exclude each other.  In every state where
\* shareUrl is set, pasteWarning is not the 'Payload exceeds safe embed size'
\* warning, whatever Prepares with payloads above and below the threshold
\* came before.
C26_LinkExcludesTooLarge ==
    IsSome(shareUrl) => pasteWarning # Some(WarnTooLarge)

\* C27: the code beside the link.  In every state where shareUrl is set, the
\* code in the code field is the code the linked package was encrypted
\* with: shareUrl.code = code, after any Prepare, edit of the code, New and
\* Get Started.
C27_LinkCodeIsShownCode ==
    IsSome(shareUrl)
        => /\ Val(shareUrl).code = code
           /\ Val(shareUrl).url.code = Val(shareUrl).code

(***************************************************************************)
(* The App with every awaited call settling: each crypto call, file read   *)
(* and clipboard write a handler awaits completes, with a value or an      *)
(* error, and the handler runs on from it.                                 *)
(***************************************************************************)
\* PrepareEncrypted is enabled exactly while the call is at "encrypt", and
\* DecryptDone exactly while the call is at "decrypt": each of their
\* branches leaves that position.  Their weak fairness is written with the
\* enabling condition spelled out.
AwaitsSettle ==
    /\ WF_vars(PrepareDerived)
    /\ WF_vars(PrepareRead)
    /\ ([]<>(prep.pc # "encrypt") \/ []<><<PrepareEncrypted>>_vars)
    /\ WF_vars(PrepareCopied)
    /\ WF_vars(DecryptDerived)
    /\ ([]<>(dec.pc # "decrypt") \/ []<><<DecryptDone>>_vars)

\* the sender picks the short file or the one that is too large
SelectLiveFile ==
    /\ SelectBigFile
    /\ fileSel' # Some(FileFit)

\* the recipient opens the link of a short file
OpenShortLink ==
    /\ IsSome(sentLink)
    /\ Val(sentLink).file.rest = 0
    /\ OpenSentLink

\* a sender who prepares files below and above the threshold, and a
\* recipient who opens the link and types the right code, a wrong one or a
\* short one
NextLive ==
    \/ openUploader
    \/ SelectLiveFile
    \/ PrepareClick
    \/ PrepareDerived
    \/ PrepareRead
    \/ PrepareEncrypted
    \/ PrepareCopied
    \/ OpenShortLink
    \/ TypeIncomingCode
    \/ DecryptClick
    \/ DecryptDerived
    \/ DecryptDone

SpecLive == Init /\ [][NextLive]_vars /\ AwaitsSettle

\* C28: busy always ends.  Whenever the App is busy, with a Prepare or a
\* Decrypt in flight, busy becomes false again and the call has returned,
\* whichever way the call ends, provided every call it awaits settles.
C28_BusyEnds ==
    /\ busy ~> ~busy
    /\ (prep.pc # "idle") ~> (prep.pc = "idle")
    /\ (dec.pc # "idle") ~> (dec.pc = "idle")

\* a Prepare whose encryption threw has returned, and busy is false
C28_Witness ==
    /\ ~busy
    /\ prep.pc = "idle"
    /\ dec.pc = "idle"
    /\ alert = AlertEncrypt

(***************************************************************************)
(* Leaving the recipient view, under Spec.                                 *)
(***************************************************************************)
\* C29: the recipient can always leave.  In every state where a package is
\* loaded, the clear action that resets incomingShare, incomingCode,
\* decryptedPreview and downloadReady is on display, before any Decrypt has
\* succeeded and after a failed one too.
C29_ClearAlwaysAvailable ==
    IsSome(incomingShare) => ClearShown

(***************************************************************************)
(* UploadPage: a file input, an Upload button that is never disabled, and  *)
(* handleUpload with its four awaits.  The server's answers are inputs.    *)
(***************************************************************************)
StatusUploading == "Uploading..."
StatusReady == "Ready to download"
StatusExpired == "Link expired"
StatusFailed == "Upload failed"

\* the files the input can hold
UploadFiles == {"a.bin", "b.bin"}

\* what handleUpload leaves alone: the App, and the file input
uploadRest == <<variant, codec, appVars, prep, dec, alert, rng, sentLink, origin,
                edits>>

\* onChange of the file input: setFile(e.target.files[0]), undefined when the
\* dialog gives no file
ChooseUploadFile ==
    /\ \E f \in {None} \cup {Some(x) : x \in UploadFiles} :
        /\ f # file
        /\ file' = f
    /\ UNCHANGED <<uploadRest, downloadUrl, status, uploads, started>>

\* the click on Upload, up to the await of the first fetch
UploadClick ==
    IF file = None
    THEN UNCHANGED vars
    ELSE /\ started < MaxUploads
         /\ status' = StatusUploading
         /\ started' = started + 1
         /\ uploads' = [uploads EXCEPT ![started + 1] =
                            [pc |-> "upload", id |-> None]]
         /\ UNCHANGED <<uploadRest, file, downloadUrl>>

\* catch (err) of call k
UploadCatch(k) ==
    /\ status' = StatusFailed
    /\ uploads' = [uploads EXCEPT ![k] = [@ EXCEPT !.pc = "returned"]]
    /\ UNCHANGED <<uploadRest, file, downloadUrl, started>>

\* fetch(`${BACKEND_URL}/api/upload`) of a call has settled
UploadFetched ==
    /\ \E k \in 1..MaxUploads, rejected \in BOOLEAN :
        /\ uploads[k].pc = "upload"
        /\ IF rejected THEN UploadCatch(k)
           ELSE /\ uploads' = [uploads EXCEPT ![k] = [@ EXCEPT !.pc = "json"]]
                /\ UNCHANGED <<uploadRest, file, downloadUrl, status, started>>

\* res.json() of a call has settled: the id of the upload, or none in the
\* answer; the second fetch is started with it
UploadParsed ==
    /\ \E k \in 1..MaxUploads, rejected \in BOOLEAN :
        /\ uploads[k].pc = "json"
        /\ IF rejected THEN UploadCatch(k)
           ELSE /\ \E id \in {None, Some(k)} :
                    uploads' = [uploads EXCEPT ![k] = [pc |-> "meta", id |-> id]]
                /\ UNCHANGED <<uploadRest, file, downloadUrl, status, started>>

\* fetch(`${BACKEND_URL}/api/download/${id}`) of a call has settled
MetaFetched ==
    /\ \E k \in 1..MaxUploads, rejected \in BOOLEAN :
        /\ uploads[k].pc = "meta"
        /\ IF rejected THEN UploadCatch(k)
           ELSE /\ uploads' = [uploads EXCEPT ![k] = [@ EXCEPT !.pc = "metajson"]]
                /\ UNCHANGED <<uploadRest, file, downloadUrl, status, started>>

\* meta.json() of a call has settled: the url of upload id, or none;
\* setDownloadUrl(url); setStatus(url ? 'Ready to download' : 'Link expired')
MetaParsed ==
    /\ \E k \in 1..MaxUploads, rejected \in BOOLEAN :
        /\ uploads[k].pc = "metajson"
        /\ IF rejected THEN UploadCatch(k)
           ELSE /\ \E url \in {None, uploads[k].id} :
                    /\ downloadUrl' = url
                    /\ status' = IF IsSome(url) THEN StatusReady
                                 ELSE StatusExpired
                /\ uploads' = [uploads EXCEPT ![k] = [@ EXCEPT !.pc = "returned"]]
                /\ UNCHANGED <<uploadRest, file, started>>

NextUpload ==
    \/ ChooseUploadFile
    \/ UploadClick
    \/ UploadFetched
    \/ UploadParsed
    \/ MetaFetched
    \/ MetaParsed

SpecUpload == Init /\ [][NextUpload]_vars

\* C30: the download link of UploadPage.  In every state where downloadUrl
\* is set, status is 'Ready to download' and the link is that of the upload
\* started last, whichever uploads succeed, fail or get no url, in whichever
\* order their answers arrive.
C30_LinkOfLatestUpload ==
    IsSome(downloadUrl)
        => /\ status = StatusReady
           /\ Val(downloadUrl) = started

=============================================================================
